---- MODULE Spec2Model ----
(***************************************************************************)
(* Control core of the DK7IH 8-band SSB transceiver (src/8-band-trx2.c,    *)
(* STM32F411, ARM GCC): VFO/band/sideband state, the EEPROM layout, the    *)
(* tuning interrupts, the keypad decoder and the control loop.             *)
(*                                                                         *)
(* Number representation.  On this target int and long are 32 bits wide.   *)
(* A long is modelled by the integer it holds, in -2^31 .. 2^31-1; every   *)
(* conversion between bytes and a long is written so that it yields the    *)
(* two's complement result the ARM instructions produce.  An unsigned      *)
(* 32-bit quantity that may exceed 2^31-1 is kept as its four bytes.       *)
(***************************************************************************)
EXTENDS Integers, Sequences, FiniteSets, TLC

\* ------------------------------------------------------------------------
\* Program constants
\* ------------------------------------------------------------------------
MAXBANDS == 8
INTERFREQUENCY == 10000000
LO_WINDOW == 3000
LO_DEFAULT_OFFSET == 1500
ADR_BASE == 128
ADR_LAST_BAND == 256
ADR_LAST_VFO == 257
LO_SLOT == 8
SYNTH_MS_0 == 42

MinLong == -2147483647 - 1
\* Si5351: crystal, PLL ratio, first PLLA register, denominator c = 0xFFFFF
FXTAL == 25000000
PLLRATIO == 32
SYNTH_PLL_A == 26
PLL_C == 1048575

\* ------------------------------------------------------------------------
\* Bounds of the model: inputs consumed in one behaviour
\* ------------------------------------------------------------------------
\* encoder interrupts, timer interrupts and key presses of the control loop
MaxEdges == 1
MaxTicks == 4
MaxKeys == 2
\* encoder and timer interrupts where the handlers run statement by statement
MaxIrqEdges == 3
MaxIrqTicks == 2
\* calls of set_frequency() in one behaviour of the DDS link
MaxCalls == 2
\* samples summed by one get_keys() call
MaxSamples == 2
\* encoder edges counted before the boot sequence reaches for(;;)
MaxPulses == 5

Bands == 0 .. (MAXBANDS - 1)
Vfos == 0 .. 1
Bytes == 0 .. 255

f_vfo0 ==
    [b \in Bands |->
        [v \in Vfos |->
            << << 1888000,  1961000>>,
               << 3650000,  3650000>>,
               << 7120000,  7120000>>,
               <<14200000, 14280000>>,
               <<18080000, 18150000>>,
               <<21290000, 21390000>>,
               <<24910000, 24912000>>,
               <<28500000, 28590000>> >>[b + 1][v + 1]]]

pref_sideband == [b \in Bands |-> <<0, 0, 0, 1, 1, 1, 1, 1>>[b + 1]]

band_f0 ==
    [b \in Bands |->
        <<1810000, 3500000, 7000000, 14000000,
          18065000, 21000000, 24890000, 28000000>>[b + 1]]

band_f1 ==
    [b \in Bands |->
        <<2000000, 3800000, 7200000, 14350000,
          18165000, 21465000, 24990000, 29700000>>[b + 1]]

\* ------------------------------------------------------------------------
\* State
\* ------------------------------------------------------------------------
VARIABLES
    \* radio state (globals of the program)
    cur_vfo, cur_band, sideband, f_lo, f_vfo,
    \* tuning and time base (globals written by the interrupt handlers)
    tuning, pulses, runsecs, runsecs_msg,
    \* peripherals: EEPROM content, last frequency sent to the DDS, last
    \* frequency programmed into multisynth 0 of the Si5351, PA10..PA12
    eeprom, dds, pll, relay,
    \* position of main() / set_lo() and their locals: key, runsecs_meas,
    \* sb and f_lo_tmp of set_lo(), secs0 of the get_keys() call in progress
    \* (inkeys), the values loaded while "pulses * pulses * tuning" is
    \* evaluated (rd_t0: tuning as tested by if(tuning))
    pc, runsecs_meas, key, lo_sb, f_lo_tmp, inkeys, secs0, rd_t0, rd_p1, rd_p2,
    \* interrupt handlers in progress: position, pulses as loaded by pulses++
    exti_pc, exti_dir, exti_ld, tim_pc,
    \* inputs consumed so far: encoder interrupts, timer interrupts, key presses
    nedges, nticks, nkeys,
    \* harness of the EEPROM frequency functions: arguments and result
    ee_pc, ee_band, ee_vfo, ee_arg, ee_ret,
    \* get_keys() statement by statement: position and locals
    kpc, adcval0, adcval1, adcvalcnt,
    \* history: <<cur_vfo, dds>> as they were before the last key, if that key
    \* was the VFO swap and no tuning event was applied since; <<>> otherwise
    swap_from,
    \* the message line of the display: the value of runsecs when the
    \* transient message now on it was written, -1 when it shows none
    msg_at,
    \* set_frequency() statement by statement: position, argument, fword, t1,
    \* and the number of calls made
    sf_pc, sf_f, fword, sf_t1, ncalls,
    \* spi_send_byte(): position, sbyte, t1
    spi_pc, sbyte, spi_t1,
    \* GPIOB->ODR bits 12..14 (DDS_IO_UD, DDS_SDIO, DDS_SCLK)
    io_ud, sdio, sclk,
    \* the DDS side of the link: the SDIO levels at the rising edges of SCLK
    \* during the current spi_send_byte() call, and the events of the
    \* current set_frequency() call (strobe levels and bytes clocked in)
    bits, link,
    \* si5351_start() / si5351_set_freq(): position, the freq argument, and
    \* the registers of the Si5351 as written over I2C (-1: not written)
    si_pc, si_freq, si_regs

radioVars == <<cur_vfo, cur_band, sideband, f_lo, f_vfo>>
irqVars == <<tuning, pulses, runsecs, runsecs_msg>>
devVars == <<eeprom, dds, pll, relay>>
mainVars == <<pc, runsecs_meas, key, lo_sb, f_lo_tmp, inkeys, secs0, rd_t0, rd_p1, rd_p2>>
isrVars == <<exti_pc, exti_dir, exti_ld, tim_pc>>
cntVars == <<nedges, nticks, nkeys>>
eeVars == <<ee_pc, ee_band, ee_vfo, ee_arg, ee_ret>>
keyVars == <<kpc, adcval0, adcval1, adcvalcnt>>
histVars == <<swap_from, msg_at>>
ddsVars == <<sf_pc, sf_f, fword, sf_t1, ncalls, spi_pc, sbyte, spi_t1, io_ud, sdio, sclk,
             bits, link>>
synthVars == <<si_pc, si_freq, si_regs>>
busVars == <<ddsVars, synthVars>>
vars == <<radioVars, irqVars, devVars, mainVars, isrVars, cntVars, eeVars, keyVars,
          histVars, busVars>>

\* ------------------------------------------------------------------------
\* EEPROM 24C65: byte store and the 4-byte frequency fields
\* ------------------------------------------------------------------------
\* The addresses the program uses: 18 frequency fields and two index bytes.
EAddr == (ADR_BASE .. (ADR_BASE + 8 * LO_SLOT + 7)) \cup {ADR_LAST_BAND, ADR_LAST_VFO}

\* eeprom_write(mem_address, value): value is a uint8_t parameter.
eeprom_write(mem, mem_address, value) ==
    [mem EXCEPT ![mem_address] = value % 256]

\* eeprom_read(mem_address): a uint8_t.
eeprom_read(mem, mem_address) == mem[mem_address]

\* Mutant of start_adr: one band takes four bytes.
start_adr_packed(band, vfo) == vfo * 4 + band * 4 + ADR_BASE

start_adr(band, vfo) == vfo * 4 + band * 8 + ADR_BASE

\* The long that the four bytes hmsb, hlsb, lmsb, llsb decode to:
\*   rf = (long) 16777216 * hmsb + (long) 65536 * hlsb
\*        + (unsigned int) 256 * lmsb + llsb
\* The sum is formed in 32 bits; for hmsb >= 128 the product 16777216 * hmsb
\* exceeds LONG_MAX and the MUL/ADD instructions leave the two's complement
\* value, which is negative.
BytesToLong(hmsb, hlsb, lmsb, llsb) ==
    (IF hmsb >= 128 THEN hmsb - 256 ELSE hmsb) * 16777216
        + 65536 * hlsb + 256 * lmsb + llsb

eeprom_load_frequency(mem, band, vfo) ==
    LET adr == start_adr(band, vfo)
        hmsb == eeprom_read(mem, adr)
        hlsb == eeprom_read(mem, adr + 1)
        lmsb == eeprom_read(mem, adr + 2)
        llsb == eeprom_read(mem, adr + 3)
    IN  BytesToLong(hmsb, hlsb, lmsb, llsb)

\* Mutant of LongToBytes: the low byte of the high word is taken modulo 128.
LongToBytes_narrow(f) ==
    LET hiword == f \div 65536
        loword == f - hiword * 65536
        hmsb == (hiword \div 256) % 256
        hlsb == (hiword - hmsb * 256) % 128
        lmsb == (loword \div 256) % 256
        llsb == (loword - lmsb * 256) % 256
    IN  <<hmsb, hlsb, lmsb, llsb>>

\* The four bytes eeprom_store_frequency computes from the long f.
\* >> on a long is an arithmetic shift (floor division); the assignments to
\* the unsigned char locals reduce modulo 256.
LongToBytes(f) ==
    LET hiword == f \div 65536
        loword == f - hiword * 65536
        hmsb == (hiword \div 256) % 256
        hlsb == (hiword - hmsb * 256) % 256
        lmsb == (loword \div 256) % 256
        llsb == (loword - lmsb * 256) % 256
    IN  <<hmsb, hlsb, lmsb, llsb>>

eeprom_store_frequency(mem, band, vfo, f) ==
    LET adr == start_adr(band, vfo)
        b == LongToBytes(f)
        m1 == eeprom_write(mem, adr, b[1])
        m2 == eeprom_write(m1, adr + 1, b[2])
        m3 == eeprom_write(m2, adr + 2, b[3])
    IN  eeprom_write(m3, adr + 3, b[4])

\* Mutant of is_freq_ok: the lower band edge is not checked.
is_freq_ok_no_lower(f, cband) == f <= band_f1[cband]

\* is_freq_ok(f, cband)
is_freq_ok(f, cband) == f >= band_f0[cband] /\ f <= band_f1[cband]

\* save_all_vfos(): the 16 fields in loop order, then byte 257.
RECURSIVE StoreSlots(_, _, _)
StoreSlots(mem, fv, n) ==
    IF n = 2 * MAXBANDS THEN mem
    ELSE StoreSlots(eeprom_store_frequency(mem, n \div 2, n % 2, fv[n \div 2][n % 2]),
                    fv, n + 1)

\* Mutant of save_all_vfos: the VFO number is written to byte 256.
save_all_vfos_band(mem, fv, vfo) ==
    eeprom_write(StoreSlots(mem, fv, 0), ADR_LAST_BAND, vfo)

save_all_vfos(mem, fv, vfo) ==
    eeprom_write(StoreSlots(mem, fv, 0), ADR_LAST_VFO, vfo)

\* Mutant of load_all_vfos: a rejected slot is set to the lower band edge.
load_all_vfos_edge(mem) ==
    [b \in Bands |->
        [v \in Vfos |->
            LET f == eeprom_load_frequency(mem, b, v)
            IN  IF ~is_freq_ok(f, b) THEN band_f0[b] ELSE f]]

\* Mutant of load_all_vfos: the loaded value is taken without the check.
load_all_vfos_raw(mem) ==
    [b \in Bands |-> [v \in Vfos |-> eeprom_load_frequency(mem, b, v)]]

\* load_all_vfos(): the value of f_vfo it leaves.
load_all_vfos(mem) ==
    [b \in Bands |->
        [v \in Vfos |->
            LET f == eeprom_load_frequency(mem, b, v)
            IN  IF ~is_freq_ok(f, b) THEN f_vfo0[b][v] ELSE f]]

\* ------------------------------------------------------------------------
\* Interrupt handlers
\* ------------------------------------------------------------------------
\* NVIC_SetPriority(EXTI0_IRQn, 1), NVIC_SetPriority(TIM2_IRQn, 2) under
\* NVIC_SetPriorityGrouping(3): all priority bits are preemption priority, a
\* numerically lower value preempts a higher one.
EXTI0_PRIO == 1
\* Mutant of TIM2_PRIO: the timer is given the more urgent priority.
TIM2_PRIO_urgent == EXTI0_PRIO - 1
TIM2_PRIO == 2

\* GPIOB->IDR & 0x03 as read by the encoder handler.
PinStates == 0 .. 3
\* Mutant of Direction: the direction is taken from PB0.
Direction_primary(state) == IF state % 2 = 1 THEN 1 ELSE -1
Direction(state) == IF (state \div 2) % 2 = 1 THEN 1 ELSE -1

\* Which code executes.  A handler that was preempted stays suspended until
\* the preempting one returns; thread mode (main) runs when none is active.
ExtiRuns == exti_pc # "idle" /\ (tim_pc = "idle" \/ EXTI0_PRIO < TIM2_PRIO)
TimRuns == tim_pc # "idle" /\ (exti_pc = "idle" \/ TIM2_PRIO < EXTI0_PRIO)
MainRuns == exti_pc = "idle" /\ tim_pc = "idle"
\* An interrupt is taken when its priority is more urgent than that of the
\* executing handler, if any.
ExtiCanEnter == exti_pc = "idle" /\ (tim_pc = "idle" \/ EXTI0_PRIO < TIM2_PRIO)
TimCanEnter == tim_pc = "idle" /\ (exti_pc = "idle" \/ TIM2_PRIO < EXTI0_PRIO)

\* EXTI0_IRQHandler, statement by statement.  Entry: the pending bit is set,
\* the pins are read; with PB0 low nothing else is done.
ExtiEnter(state) ==
    /\ ExtiCanEnter
    /\ nedges < MaxIrqEdges
    /\ nedges' = nedges + 1
    /\ IF state % 2 = 1
       THEN exti_pc' = "tuning" /\ exti_dir' = Direction(state)
       ELSE exti_pc' = "idle" /\ exti_dir' = exti_dir
    /\ UNCHANGED <<radioVars, irqVars, devVars, mainVars, eeVars, keyVars, histVars, busVars,
                   exti_ld, tim_pc, nticks, nkeys>>

\* tuning = 1 or tuning = -1
ExtiTuning ==
    /\ exti_pc = "tuning" /\ ExtiRuns
    /\ tuning' = exti_dir
    /\ exti_pc' = "load"
    /\ UNCHANGED <<radioVars, pulses, runsecs, runsecs_msg, devVars, mainVars,
                   eeVars, keyVars, histVars, busVars, cntVars, exti_dir, exti_ld, tim_pc>>

\* pulses++: the load
ExtiLoad ==
    /\ exti_pc = "load" /\ ExtiRuns
    /\ exti_ld' = pulses
    /\ exti_pc' = "store"
    /\ UNCHANGED <<radioVars, irqVars, devVars, mainVars, eeVars, keyVars, histVars, busVars, cntVars,
                   exti_dir, tim_pc>>

\* pulses++: the store, then the return from the handler
ExtiStore ==
    /\ exti_pc = "store" /\ ExtiRuns
    /\ pulses' = exti_ld + 1
    /\ exti_pc' = "idle"
    /\ exti_ld' = 0
    /\ exti_dir' = 0
    /\ UNCHANGED <<radioVars, tuning, runsecs, runsecs_msg, devVars, mainVars,
                   eeVars, keyVars, histVars, busVars, cntVars, tim_pc>>

\* TIM2_IRQHandler, statement by statement.
TimEnter ==
    /\ TimCanEnter
    /\ nticks < MaxIrqTicks
    /\ nticks' = nticks + 1
    /\ tim_pc' = "clear"
    /\ UNCHANGED <<radioVars, irqVars, devVars, mainVars, eeVars, keyVars, histVars, busVars,
                   exti_pc, exti_dir, exti_ld, nedges, nkeys>>

\* Mutant of TimClear: the tick leaves pulses as it is.
TimClear_keep ==
    /\ tim_pc = "clear" /\ TimRuns
    /\ tim_pc' = "inc"
    /\ UNCHANGED <<radioVars, tuning, pulses, runsecs, runsecs_msg, devVars, mainVars,
                   eeVars, keyVars, histVars, busVars, cntVars, exti_pc, exti_dir, exti_ld>>

\* pulses = 0
TimClear ==
    /\ tim_pc = "clear" /\ TimRuns
    /\ pulses' = 0
    /\ tim_pc' = "inc"
    /\ UNCHANGED <<radioVars, tuning, runsecs, runsecs_msg, devVars, mainVars,
                   eeVars, keyVars, histVars, busVars, cntVars, exti_pc, exti_dir, exti_ld>>

\* runsecs++, then the return from the handler
TimInc ==
    /\ tim_pc = "inc" /\ TimRuns
    /\ runsecs' = runsecs + 1
    /\ tim_pc' = "idle"
    /\ UNCHANGED <<radioVars, tuning, pulses, runsecs_msg, devVars, mainVars,
                   eeVars, keyVars, histVars, busVars, cntVars, exti_pc, exti_dir, exti_ld>>

\* The handlers as single steps (specifications that do not examine the
\* nesting of the two handlers use these).
EXTI0_IRQHandler(state) ==
    /\ MainRuns
    /\ nedges < MaxEdges
    /\ nedges' = nedges + 1
    /\ IF state % 2 = 1
       THEN tuning' = Direction(state) /\ pulses' = pulses + 1
       ELSE UNCHANGED <<tuning, pulses>>
    /\ UNCHANGED <<radioVars, runsecs, runsecs_msg, devVars, mainVars, eeVars, keyVars, histVars, busVars,
                   isrVars, nticks, nkeys>>

TIM2_IRQHandler ==
    /\ MainRuns
    /\ nticks < MaxTicks
    /\ nticks' = nticks + 1
    /\ pulses' = 0
    /\ runsecs' = runsecs + 1
    /\ UNCHANGED <<radioVars, tuning, runsecs_msg, devVars, mainVars, eeVars, keyVars, histVars, busVars,
                   isrVars, nedges, nkeys>>

\* ------------------------------------------------------------------------
\* set_band_relay(b): PA10..PA12 and the LO of the preferred sideband
\* ------------------------------------------------------------------------
RECURSIVE RelayBits(_, _)
RelayBits(b, t1) ==
    IF t1 = 3 THEN 0
    ELSE ((b \div (2 ^ t1)) % 2) * (2 ^ t1) + RelayBits(b, t1 + 1)

\* Mutant of set_band_relay: the LO of the sideband flag, not of the
\* preferred sideband of the band.
set_band_relay_flag(b) ==
    /\ relay' = RelayBits(b, 0)
    /\ pll' = f_lo[sideband]

set_band_relay(b) ==
    /\ relay' = RelayBits(b, 0)
    /\ pll' = f_lo[pref_sideband[b]]

\* ------------------------------------------------------------------------
\* Boot: main() from "Load values" to the entry of for(;;)
\* ------------------------------------------------------------------------
\* Mutant of BootBand: an invalid byte is clamped to the nearest band.
BootBand_clamp(mem) ==
    LET b == eeprom_read(mem, ADR_LAST_BAND)
    IN  IF b > 7 THEN 7 ELSE b

BootBand(mem) ==
    LET b == eeprom_read(mem, ADR_LAST_BAND)
    IN  IF b < 0 \/ b > 7 THEN 2 ELSE b

\* Mutant of BootVfo: the byte is taken as it is.
BootVfo_raw(mem) == eeprom_read(mem, ADR_LAST_VFO)

BootVfo(mem) ==
    LET v == eeprom_read(mem, ADR_LAST_VFO)
    IN  IF v < 0 \/ v > 1 THEN 0 ELSE v

\* Mutant of BootLo: the bounds of the window are excluded.
BootLo_strict(mem) ==
    [t1 \in Vfos |->
        LET f == eeprom_load_frequency(mem, LO_SLOT, t1)
        IN  IF f <= INTERFREQUENCY - LO_WINDOW \/ f >= INTERFREQUENCY + LO_WINDOW
            THEN INTERFREQUENCY + LO_DEFAULT_OFFSET * (t1 * 2 - 1)
            ELSE f]

\* Mutant of BootLo: the lower bound of the window is not tested.
BootLo_no_lower(mem) ==
    [t1 \in Vfos |->
        LET f == eeprom_load_frequency(mem, LO_SLOT, t1)
        IN  IF f > INTERFREQUENCY + LO_WINDOW
            THEN INTERFREQUENCY + LO_DEFAULT_OFFSET * (t1 * 2 - 1)
            ELSE f]

BootLo(mem) ==
    [t1 \in Vfos |->
        LET f == eeprom_load_frequency(mem, LO_SLOT, t1)
        IN  IF f < INTERFREQUENCY - LO_WINDOW \/ f > INTERFREQUENCY + LO_WINDOW
            THEN INTERFREQUENCY + LO_DEFAULT_OFFSET * (t1 * 2 - 1)
            ELSE f]

Boot ==
    /\ pc = "boot" /\ MainRuns
    /\ cur_band' = BootBand(eeprom)
    /\ cur_vfo' = BootVfo(eeprom)
    /\ f_vfo' = load_all_vfos(eeprom)
    /\ sideband' = pref_sideband[cur_band']
    /\ f_lo' = BootLo(eeprom)
    \* si5351_set_freq for f_lo[0], f_lo[1], then set_band_relay(cur_band)
    /\ relay' = cur_band'
    /\ pll' = f_lo'[pref_sideband[cur_band']]
    /\ runsecs_meas' = 0
    /\ pc' = "loop"
    /\ UNCHANGED <<irqVars, eeprom, dds, eeVars, keyVars, histVars, busVars, isrVars, cntVars,
                   key, lo_sb, f_lo_tmp, inkeys, secs0, rd_t0, rd_p1, rd_p2>>

\* The same sequence statement by statement: the loads up to "sideband =",
\* the two passes of the for(t1...) loop with their si5351_set_freq, and
\* set_band_relay(cur_band).
BootFrame == UNCHANGED <<irqVars, eeprom, dds, eeVars, keyVars, histVars, busVars, isrVars, cntVars,
                         runsecs_meas, key, lo_sb, f_lo_tmp, inkeys, secs0,
                         rd_t0, rd_p1, rd_p2>>

BootLoad ==
    /\ pc = "boot" /\ MainRuns
    /\ cur_band' = BootBand(eeprom)
    /\ cur_vfo' = BootVfo(eeprom)
    /\ f_vfo' = load_all_vfos(eeprom)
    /\ sideband' = pref_sideband[cur_band']
    /\ pc' = "boot_lo0"
    /\ UNCHANGED <<f_lo, pll, relay>>
    /\ BootFrame

BootLoStep ==
    /\ pc \in {"boot_lo0", "boot_lo1"} /\ MainRuns
    /\ LET t1 == IF pc = "boot_lo0" THEN 0 ELSE 1
       IN  /\ f_lo' = [f_lo EXCEPT ![t1] = BootLo(eeprom)[t1]]
           /\ pll' = f_lo'[t1]
    /\ pc' = IF pc = "boot_lo0" THEN "boot_lo1" ELSE "boot_relay"
    /\ UNCHANGED <<cur_vfo, cur_band, sideband, f_vfo, relay>>
    /\ BootFrame

BootRelay ==
    /\ pc = "boot_relay" /\ MainRuns
    /\ set_band_relay(cur_band)
    /\ pc' = "loop"
    /\ UNCHANGED radioVars
    /\ BootFrame

\* ------------------------------------------------------------------------
\* main(): the tuning block of for(;;)
\*   if(tuning) { f_vfo[cur_band][cur_vfo] += pulses * pulses * tuning;
\*                set_frequency(..); show_frequency1(..); tuning = 0; }
\* tuning and pulses are plain (non-volatile) globals shared with the
\* handlers: the expression may load pulses once or twice and may reuse the
\* value of tuning that the test loaded, depending on the build.
\* ------------------------------------------------------------------------
MainTest ==
    /\ pc = "loop" /\ MainRuns
    /\ rd_t0' = tuning
    /\ pc' = IF tuning # 0 THEN "tune1" ELSE "keys"
    /\ UNCHANGED <<radioVars, irqVars, devVars, eeVars, keyVars, histVars, busVars, isrVars, cntVars,
                   runsecs_meas, key, lo_sb, f_lo_tmp, inkeys, secs0, rd_p1, rd_p2>>

MainRead1 ==
    /\ pc = "tune1" /\ MainRuns
    /\ rd_p1' = pulses
    /\ pc' = "tune2"
    /\ UNCHANGED <<radioVars, irqVars, devVars, eeVars, keyVars, histVars, busVars, isrVars, cntVars,
                   runsecs_meas, key, lo_sb, f_lo_tmp, inkeys, secs0, rd_t0, rd_p2>>

MainRead2 ==
    /\ pc = "tune2" /\ MainRuns
    /\ rd_p2' \in {rd_p1, pulses}
    /\ pc' = "apply"
    /\ UNCHANGED <<radioVars, irqVars, devVars, eeVars, keyVars, histVars, busVars, isrVars, cntVars,
                   runsecs_meas, key, lo_sb, f_lo_tmp, inkeys, secs0, rd_t0, rd_p1>>

\* Mutant of MainApply: the delta is linear in the pulse count.
MainApply_linear ==
    /\ pc = "apply" /\ MainRuns
    /\ \E t \in {rd_t0, tuning} :
          f_vfo' = [f_vfo EXCEPT ![cur_band][cur_vfo] = @ + rd_p1 * t]
    /\ dds' = f_vfo'[cur_band][cur_vfo]
    /\ pc' = "clear"
    /\ UNCHANGED <<cur_vfo, cur_band, sideband, f_lo, irqVars, eeprom, pll, relay,
                   eeVars, keyVars, isrVars, cntVars,
                   runsecs_meas, key, lo_sb, f_lo_tmp, inkeys, secs0, rd_t0, rd_p1, rd_p2>>
    /\ UNCHANGED <<busVars, msg_at>>
    /\ swap_from' = <<>>

\* The sum, the store to f_vfo and set_frequency(f_vfo[cur_band][cur_vfo]).
MainApply ==
    /\ pc = "apply" /\ MainRuns
    /\ \E t \in {rd_t0, tuning} :
          f_vfo' = [f_vfo EXCEPT ![cur_band][cur_vfo] = @ + rd_p1 * rd_p2 * t]
    /\ dds' = f_vfo'[cur_band][cur_vfo]
    /\ pc' = "clear"
    /\ UNCHANGED <<cur_vfo, cur_band, sideband, f_lo, irqVars, eeprom, pll, relay,
                   eeVars, keyVars, isrVars, cntVars,
                   runsecs_meas, key, lo_sb, f_lo_tmp, inkeys, secs0, rd_t0, rd_p1, rd_p2>>
    /\ UNCHANGED <<busVars, msg_at>>
    /\ swap_from' = <<>>

\* Mutant of MainTune: a sum outside the band is not stored.
MainTune_clamped ==
    /\ pc = "loop" /\ MainRuns
    /\ IF tuning # 0
       THEN /\ f_vfo' = [f_vfo EXCEPT ![cur_band][cur_vfo] =
                            IF is_freq_ok(@ + pulses * pulses * tuning, cur_band)
                            THEN @ + pulses * pulses * tuning ELSE @]
            /\ dds' = f_vfo'[cur_band][cur_vfo]
            /\ pc' = "clear"
       ELSE /\ UNCHANGED <<f_vfo, dds>>
            /\ pc' = "keys"
    /\ UNCHANGED <<cur_vfo, cur_band, sideband, f_lo, irqVars, eeprom, pll, relay,
                   eeVars, keyVars, isrVars, cntVars,
                   runsecs_meas, key, lo_sb, f_lo_tmp, inkeys, secs0, rd_t0, rd_p1, rd_p2>>
    /\ UNCHANGED <<busVars, msg_at>>
    /\ swap_from' = IF tuning # 0 THEN <<>> ELSE swap_from

\* The same statements as one step each: the test together with the sum and
\* set_frequency, all loads taken at one instant.
MainTune ==
    /\ pc = "loop" /\ MainRuns
    /\ IF tuning # 0
       THEN /\ f_vfo' = [f_vfo EXCEPT ![cur_band][cur_vfo] = @ + pulses * pulses * tuning]
            /\ dds' = f_vfo'[cur_band][cur_vfo]
            /\ pc' = "clear"
       ELSE /\ UNCHANGED <<f_vfo, dds>>
            /\ pc' = "keys"
    /\ UNCHANGED <<cur_vfo, cur_band, sideband, f_lo, irqVars, eeprom, pll, relay,
                   eeVars, keyVars, isrVars, cntVars,
                   runsecs_meas, key, lo_sb, f_lo_tmp, inkeys, secs0, rd_t0, rd_p1, rd_p2>>
    /\ UNCHANGED <<busVars, msg_at>>
    /\ swap_from' = IF tuning # 0 THEN <<>> ELSE swap_from

\* Mutant of MainClear: the pulse counter is cleared together with tuning.
MainClear_both ==
    /\ pc = "clear" /\ MainRuns
    /\ tuning' = 0
    /\ pulses' = 0
    /\ pc' = "keys"
    /\ rd_t0' = 0 /\ rd_p1' = 0 /\ rd_p2' = 0
    /\ UNCHANGED <<radioVars, runsecs, runsecs_msg, devVars, eeVars, keyVars, histVars, busVars,
                   isrVars, cntVars, runsecs_meas, key, lo_sb, f_lo_tmp, inkeys, secs0>>

\* tuning = 0, after show_frequency1 has returned
MainClear ==
    /\ pc = "clear" /\ MainRuns
    /\ tuning' = 0
    /\ pc' = "keys"
    /\ rd_t0' = 0 /\ rd_p1' = 0 /\ rd_p2' = 0
    /\ UNCHANGED <<radioVars, pulses, runsecs, runsecs_msg, devVars, eeVars, keyVars, histVars, busVars,
                   isrVars, cntVars, runsecs_meas, key, lo_sb, f_lo_tmp, inkeys, secs0>>

\* ------------------------------------------------------------------------
\* get_keys() as the control loop sees it: a call that blocks while a key is
\* held and returns -1 or a key code; a code 0..5 is returned when fewer
\* than 2 ticks of runsecs passed since the entry, a code 6..11 otherwise.
\* (The decoder itself is the Kp actions below.)
\* ------------------------------------------------------------------------
KeyCodes == -1 .. 11
LONG_PRESS == 2
NUM_KEYS == 6

KeysEnter ==
    /\ pc \in {"keys", "lo_drain", "lo_key0", "lo_key"} /\ MainRuns
    /\ ~inkeys
    /\ inkeys' = TRUE
    /\ secs0' = runsecs
    /\ UNCHANGED <<radioVars, irqVars, devVars, eeVars, keyVars, histVars, busVars, isrVars, cntVars,
                   pc, runsecs_meas, key, lo_sb, f_lo_tmp, rd_t0, rd_p1, rd_p2>>

\* get_keys() can return k now; what the return leaves in key, inkeys,
\* runsecs_msg ("runsecs_msg = runsecs" when a key matched).
KeyResult(k) ==
    /\ inkeys /\ MainRuns
    /\ \/ k = -1
       \/ k \in 0 .. (NUM_KEYS - 1) /\ runsecs - secs0 < LONG_PRESS /\ nkeys < MaxKeys
       \/ k \in NUM_KEYS .. (2 * NUM_KEYS - 1) /\ runsecs - secs0 >= LONG_PRESS /\ nkeys < MaxKeys
    /\ key' = k
    /\ inkeys' = FALSE
    /\ secs0' = 0
    /\ nkeys' = IF k >= 0 THEN nkeys + 1 ELSE nkeys

\* ------------------------------------------------------------------------
\* get_keys() statement by statement.  Every get_adc(1) is a fresh sample of
\* the ladder voltage; the while loop samples once for its test and once
\* more for the sum.
\* ------------------------------------------------------------------------
KEY_RELEASED == 4000
KEY_TOLERANCE == 100

\* 12-bit samples: the edges of the window of key 0, values around 1800,
\* a value in no window, the released threshold and above.
AdcSamples == {270, 271, 320, 420, 469, 470, 1000, 1800, 4000, 4095}

\* Mutant of key_value: the table in ascending order.
key_value_sorted == [t1 \in 0 .. (NUM_KEYS - 1) |->
    CASE t1 = 0 -> 370 [] t1 = 1 -> 735 [] t1 = 2 -> 1320
      [] t1 = 3 -> 1863 [] t1 = 4 -> 2462 [] t1 = 5 -> 3135]

\* Mutant of key_value: the centre of key 4 lies 180 above that of key 2.
key_value_close == [t1 \in 0 .. (NUM_KEYS - 1) |->
    CASE t1 = 0 -> 370 [] t1 = 1 -> 735 [] t1 = 2 -> 1320
      [] t1 = 3 -> 2462 [] t1 = 4 -> 1500 [] t1 = 5 -> 3135]

key_value == [t1 \in 0 .. (NUM_KEYS - 1) |->
    CASE t1 = 0 -> 370 [] t1 = 1 -> 735 [] t1 = 2 -> 1320
      [] t1 = 3 -> 2462 [] t1 = 4 -> 1863 [] t1 = 5 -> 3135]

\* Mutant of KeyCode: a press of exactly 2 ticks still counts as short.
KeyCode_inclusive(t1, held) ==
    IF held <= LONG_PRESS THEN t1 ELSE t1 + NUM_KEYS

\* if((runsecs - secs0) < 2) return t1; else return t1 + 6;
KeyCode(t1, held) ==
    IF held < LONG_PRESS THEN t1 ELSE t1 + NUM_KEYS

\* for(t1 = 0; t1 < 6; t1++) if(adcval0 > key_value[t1] - 100 && ...): the
\* first t1 whose window holds m, or -1
RECURSIVE MatchKey(_, _)
MatchKey(m, t1) ==
    IF t1 = NUM_KEYS THEN -1
    ELSE IF m > key_value[t1] - KEY_TOLERANCE /\ m < key_value[t1] + KEY_TOLERANCE
         THEN t1
         ELSE MatchKey(m, t1 + 1)

KpFrame == UNCHANGED <<radioVars, tuning, pulses, runsecs, devVars, eeVars, isrVars,
                       cntVars, swap_from, busVars, pc, runsecs_meas, lo_sb, f_lo_tmp, inkeys,
                       rd_t0, rd_p1, rd_p2>>

\* int adcval0 = get_adc(1); ... long secs0 = runsecs;
\* if(adcval0 > 4000) return -1;
KpEntry(s) ==
    /\ pc = "halt" /\ kpc = "idle" /\ MainRuns
    /\ adcval0' = s
    /\ adcval1' = 0 /\ adcvalcnt' = 0
    /\ secs0' = runsecs
    /\ IF s > KEY_RELEASED
       THEN key' = -1 /\ kpc' = "ret"
       ELSE key' = key /\ kpc' = "test"
    /\ UNCHANGED <<runsecs_msg, msg_at>>
    /\ KpFrame

\* while(get_adc(1) <= 4000)
KpTest(s) ==
    /\ kpc = "test" /\ MainRuns
    /\ s <= KEY_RELEASED => adcvalcnt < MaxSamples
    /\ kpc' = IF s <= KEY_RELEASED THEN "body" ELSE "mean"
    /\ UNCHANGED <<adcval0, adcval1, adcvalcnt, secs0, key, runsecs_msg, msg_at>>
    /\ KpFrame

\* { adcval1 += get_adc(1); adcvalcnt++; ... }
KpBody(s) ==
    /\ kpc = "body" /\ MainRuns
    /\ adcval1' = adcval1 + s
    /\ adcvalcnt' = adcvalcnt + 1
    /\ kpc' = "test"
    /\ UNCHANGED <<adcval0, secs0, key, runsecs_msg, msg_at>>
    /\ KpFrame

\* adcval0 = adcval1 / adcvalcnt;  With adcvalcnt = 0 the division is
\* undefined: SDIV yields 0, or traps when CCR.DIV_0_TRP is set.
KpMean ==
    /\ kpc = "mean" /\ MainRuns
    /\ IF adcvalcnt = 0
       THEN \/ adcval0' = 0 /\ kpc' = "match"
            \/ adcval0' = adcval0 /\ kpc' = "fault"
       ELSE adcval0' = adcval1 \div adcvalcnt /\ kpc' = "match"
    /\ UNCHANGED <<adcval1, adcvalcnt, secs0, key, runsecs_msg, msg_at>>
    /\ KpFrame

\* for(t1 ...) if(match) { runsecs_msg = runsecs;
\* if((runsecs - secs0) < 2) return t1; else return t1 + 6; }  return -1;
KpMatch ==
    /\ kpc = "match" /\ MainRuns
    /\ LET t1 == MatchKey(adcval0, 0)
       IN  IF t1 >= 0
           THEN /\ runsecs_msg' = runsecs
                /\ msg_at' = runsecs
                /\ key' = KeyCode(t1, runsecs - secs0)
           ELSE /\ key' = -1
                /\ UNCHANGED <<runsecs_msg, msg_at>>
    /\ kpc' = "ret"
    /\ UNCHANGED <<adcval0, adcval1, adcvalcnt, secs0>>
    /\ KpFrame

\* the return: the locals die
KpReturn ==
    /\ kpc = "ret" /\ MainRuns
    /\ kpc' = "idle"
    /\ adcval0' = 0 /\ adcval1' = 0 /\ adcvalcnt' = 0 /\ secs0' = 0
    /\ UNCHANGED <<key, runsecs_msg, msg_at>>
    /\ KpFrame

\* Mutant of SelectBand: the band change also runs save_all_vfos().
SelectBand_saving(nb) ==
    /\ cur_band' = nb
    /\ dds' = f_vfo[nb][cur_vfo]
    /\ set_band_relay(nb)
    /\ eeprom' = eeprom_write(save_all_vfos(eeprom, f_vfo, cur_vfo), ADR_LAST_BAND, nb)
    /\ UNCHANGED <<cur_vfo, sideband, f_lo, f_vfo>>

\* Cases 0 and 3 of switch(key) when the band changes to nb.
SelectBand(nb) ==
    /\ cur_band' = nb
    /\ dds' = f_vfo[nb][cur_vfo]
    /\ set_band_relay(nb)
    /\ eeprom' = eeprom_write(eeprom, ADR_LAST_BAND, nb)
    /\ UNCHANGED <<cur_vfo, sideband, f_lo, f_vfo>>

\* Mutant of SelectVfo: the new VFO is not written to byte 257.
SelectVfo_volatile ==
    /\ cur_vfo' = 1 - cur_vfo
    /\ dds' = f_vfo[cur_band][cur_vfo']
    /\ UNCHANGED <<cur_band, sideband, f_lo, f_vfo, eeprom, pll, relay>>

\* Case 2: VFO swap.
SelectVfo ==
    /\ cur_vfo' = 1 - cur_vfo
    /\ eeprom' = eeprom_write(eeprom, ADR_LAST_VFO, cur_vfo')
    /\ dds' = f_vfo[cur_band][cur_vfo']
    /\ UNCHANGED <<cur_band, sideband, f_lo, f_vfo, pll, relay>>

\* Case 4: save_all_vfos().
SaveAll ==
    /\ eeprom' = save_all_vfos(eeprom, f_vfo, cur_vfo)
    /\ UNCHANGED <<radioVars, dds, pll, relay>>

\* Mutant of BandDown: the band index wraps around.
BandDown_wrap(b) == (b + MAXBANDS - 1) % MAXBANDS

\* case 0: if(cur_band < (MAXBANDS - 1)) cur_band++;
\* case 3: if(cur_band > 0) cur_band--;
BandUp(b) == IF b < MAXBANDS - 1 THEN b + 1 ELSE b
BandDown(b) == IF b > 0 THEN b - 1 ELSE b

\* Mutant of ToggleSideband: the PLL follows the flag.
ToggleSideband_lo ==
    /\ sideband' = 1 - sideband
    /\ pll' = f_lo[sideband']
    /\ UNCHANGED <<cur_vfo, cur_band, f_lo, f_vfo, eeprom, dds, relay>>

\* Case 1: sideband = !sideband; show_sideband(sideband, 0);
ToggleSideband ==
    /\ sideband' = 1 - sideband
    /\ UNCHANGED <<cur_vfo, cur_band, f_lo, f_vfo, devVars>>

\* Mutant of MainDispatch: a long press of key 2 (code 8) swaps the VFO as
\* the short press does.
MainDispatch_long(k) ==
    /\ pc = "keys"
    /\ KeyResult(k)
    /\ CASE k = 0 /\ BandUp(cur_band) # cur_band -> SelectBand(BandUp(cur_band))
         [] k = 3 /\ BandDown(cur_band) # cur_band -> SelectBand(BandDown(cur_band))
         [] k = 1 -> ToggleSideband
         [] k \in {2, 8} -> SelectVfo
         [] k = 4 -> SaveAll
         [] OTHER -> UNCHANGED <<radioVars, devVars>>
    /\ runsecs_msg' = IF k >= 0 THEN runsecs ELSE runsecs_msg
    /\ pc' = IF k \in {6, 7} THEN "lo_drain" ELSE "house"
    /\ lo_sb' = IF k \in {6, 7} THEN k - 6 ELSE lo_sb
    /\ f_lo_tmp' = IF k \in {6, 7} THEN f_lo[k - 6] ELSE f_lo_tmp
    /\ UNCHANGED <<tuning, pulses, runsecs, eeVars, keyVars, isrVars, nedges, nticks,
                   runsecs_meas, rd_t0, rd_p1, rd_p2>>
    /\ UNCHANGED busVars
    /\ msg_at' = IF k >= 0 THEN runsecs ELSE msg_at
    /\ swap_from' = IF k \in {2, 8} THEN <<cur_vfo, dds>>
                   ELSE IF k = -1 THEN swap_from ELSE <<>>

\* key = get_keys(); switch(key) { ... } of for(;;).  Cases 6 and 7 call
\* set_lo(0) / set_lo(1), whose first statement loads f_lo_tmp.
MainDispatch(k) ==
    /\ pc = "keys"
    /\ KeyResult(k)
    /\ CASE k = 0 /\ BandUp(cur_band) # cur_band -> SelectBand(BandUp(cur_band))
         [] k = 3 /\ BandDown(cur_band) # cur_band -> SelectBand(BandDown(cur_band))
         [] k = 1 -> ToggleSideband
         [] k = 2 -> SelectVfo
         [] k = 4 -> SaveAll
         [] OTHER -> UNCHANGED <<radioVars, devVars>>
    /\ runsecs_msg' = IF k >= 0 THEN runsecs ELSE runsecs_msg
    /\ pc' = IF k \in {6, 7} THEN "lo_drain" ELSE "house"
    /\ lo_sb' = IF k \in {6, 7} THEN k - 6 ELSE lo_sb
    /\ f_lo_tmp' = IF k \in {6, 7} THEN f_lo[k - 6] ELSE f_lo_tmp
    /\ UNCHANGED <<tuning, pulses, runsecs, eeVars, keyVars, isrVars, nedges, nticks,
                   runsecs_meas, rd_t0, rd_p1, rd_p2>>
    /\ UNCHANGED busVars
    /\ msg_at' = IF k >= 0 THEN runsecs ELSE msg_at
    /\ swap_from' = IF k = 2 THEN <<cur_vfo, dds>>
                   ELSE IF k = -1 THEN swap_from ELSE <<>>

\* The end of the loop body: message line and VDD/temperature refresh.
\* key and the locals of the set_lo() call that returned are dead here.
MainHouse ==
    /\ pc = "house" /\ MainRuns
    /\ runsecs_msg' = IF runsecs > runsecs_msg + 3 /\ runsecs_msg # 0
                      THEN 0 ELSE runsecs_msg
    /\ msg_at' = IF runsecs > runsecs_msg + 3 /\ runsecs_msg # 0 THEN -1 ELSE msg_at
    /\ runsecs_meas' = IF runsecs > runsecs_meas + 3 THEN runsecs ELSE runsecs_meas
    /\ pc' = "loop"
    /\ key' = 0 /\ lo_sb' = 0 /\ f_lo_tmp' = 0
    /\ UNCHANGED <<radioVars, tuning, pulses, runsecs, devVars, eeVars, keyVars, swap_from, busVars, isrVars,
                   cntVars, inkeys, secs0, rd_t0, rd_p1, rd_p2>>

\* ------------------------------------------------------------------------
\* set_lo(sb)
\* ------------------------------------------------------------------------
\* while(get_keys() != -1);
LoDrain(k) ==
    /\ pc = "lo_drain"
    /\ KeyResult(k)
    /\ runsecs_msg' = IF k >= 0 THEN runsecs ELSE runsecs_msg
    /\ msg_at' = IF k >= 0 THEN runsecs ELSE msg_at
    /\ pc' = IF k = -1 THEN "lo_key0" ELSE "lo_drain"
    /\ UNCHANGED <<radioVars, tuning, pulses, runsecs, devVars, eeVars, keyVars, swap_from, busVars, isrVars,
                   nedges, nticks, runsecs_meas, lo_sb, f_lo_tmp,
                   rd_t0, rd_p1, rd_p2>>

\* key = get_keys(); before the loop and at the end of its body
LoKey(k) ==
    /\ pc \in {"lo_key0", "lo_key"}
    /\ KeyResult(k)
    /\ runsecs_msg' = IF k >= 0 THEN runsecs ELSE runsecs_msg
    /\ msg_at' = IF k >= 0 THEN runsecs ELSE msg_at
    /\ pc' = "lo_test"
    /\ UNCHANGED <<radioVars, tuning, pulses, runsecs, devVars, eeVars, keyVars, swap_from, busVars, isrVars,
                   nedges, nticks, runsecs_meas, lo_sb, f_lo_tmp,
                   rd_t0, rd_p1, rd_p2>>

\* Mutant of LoBody: every key code from 6 upwards ends the loop.
LoBody_upwards ==
    /\ pc = "lo_test" /\ MainRuns
    /\ IF key < 6 /\ tuning # 0
       THEN /\ f_lo_tmp' = f_lo_tmp + pulses * pulses * tuning
            /\ pll' = f_lo_tmp'
       ELSE UNCHANGED <<f_lo_tmp, pll>>
    /\ pc' = IF key >= 6 THEN "lo_end"
             ELSE IF tuning # 0 THEN "lo_clear" ELSE "lo_key"
    /\ UNCHANGED <<radioVars, irqVars, eeprom, dds, relay, eeVars, keyVars, histVars, busVars, isrVars, cntVars,
                   runsecs_meas, key, lo_sb, inkeys, secs0, rd_t0, rd_p1, rd_p2>>

\* while((key != 6) && (key != 7)) { if(tuning) { f_lo_tmp += pulses * pulses
\* * tuning; si5351_set_freq(SYNTH_MS_0, f_lo_tmp); ...
LoBody ==
    /\ pc = "lo_test" /\ MainRuns
    /\ IF key \notin {6, 7} /\ tuning # 0
       THEN /\ f_lo_tmp' = f_lo_tmp + pulses * pulses * tuning
            /\ pll' = f_lo_tmp'
       ELSE UNCHANGED <<f_lo_tmp, pll>>
    /\ pc' = IF key \in {6, 7} THEN "lo_end"
             ELSE IF tuning # 0 THEN "lo_clear" ELSE "lo_key"
    /\ UNCHANGED <<radioVars, irqVars, eeprom, dds, relay, eeVars, keyVars, histVars, busVars, isrVars, cntVars,
                   runsecs_meas, key, lo_sb, inkeys, secs0, rd_t0, rd_p1, rd_p2>>

\* ... tuning = 0; }
LoClear ==
    /\ pc = "lo_clear" /\ MainRuns
    /\ tuning' = 0
    /\ pc' = "lo_key"
    /\ UNCHANGED <<radioVars, pulses, runsecs, runsecs_msg, devVars, eeVars, keyVars, histVars, busVars,
                   isrVars, cntVars, runsecs_meas, key, lo_sb, f_lo_tmp, inkeys, secs0,
                   rd_t0, rd_p1, rd_p2>>

\* Mutant of LoEnd: the abort case leaves the PLL as the sub-loop set it.
LoEnd_keep ==
    /\ pc = "lo_end" /\ MainRuns
    /\ IF key = 6
       THEN UNCHANGED <<pll, f_lo, eeprom>>
       ELSE /\ f_lo' = [f_lo EXCEPT ![lo_sb] = f_lo_tmp]
            /\ eeprom' = eeprom_store_frequency(eeprom, LO_SLOT, lo_sb, f_lo'[lo_sb])
            /\ UNCHANGED pll
    /\ runsecs_msg' = runsecs
    /\ msg_at' = runsecs
    /\ pc' = "house"
    /\ UNCHANGED <<cur_vfo, cur_band, sideband, f_vfo, tuning, pulses, runsecs,
                   dds, relay, eeVars, keyVars, swap_from, busVars, isrVars, cntVars,
                   runsecs_meas, key, lo_sb, f_lo_tmp, inkeys, secs0, rd_t0, rd_p1, rd_p2>>

\* switch(key) { case 6: ... case 7: ... } return key;
LoEnd ==
    /\ pc = "lo_end" /\ MainRuns
    /\ IF key = 6
       THEN /\ pll' = f_lo[lo_sb]
            /\ UNCHANGED <<f_lo, eeprom>>
       ELSE /\ f_lo' = [f_lo EXCEPT ![lo_sb] = f_lo_tmp]
            /\ eeprom' = eeprom_store_frequency(eeprom, LO_SLOT, lo_sb, f_lo'[lo_sb])
            /\ UNCHANGED pll
    /\ runsecs_msg' = runsecs
    /\ msg_at' = runsecs
    /\ pc' = "house"
    /\ UNCHANGED <<cur_vfo, cur_band, sideband, f_vfo, tuning, pulses, runsecs,
                   dds, relay, eeVars, keyVars, swap_from, busVars, isrVars, cntVars,
                   runsecs_meas, key, lo_sb, f_lo_tmp, inkeys, secs0, rd_t0, rd_p1, rd_p2>>

\* ------------------------------------------------------------------------
\* Arithmetic of the double expressions.  A value too wide for the machine
\* integers of the model is a sequence of hexadecimal digits, least
\* significant digit first.
\* ------------------------------------------------------------------------
RECURSIVE HexDigits(_)
HexDigits(n) == IF n = 0 THEN <<>> ELSE <<n % 16>> \o HexDigits(n \div 16)

RECURSIVE HexVal(_)
HexVal(x) == IF x = <<>> THEN 0 ELSE Head(x) + 16 * HexVal(Tail(x))

\* x * k + cy
RECURSIVE HexMul(_, _, _)
HexMul(x, k, cy) ==
    IF x = <<>> THEN HexDigits(cy)
    ELSE LET t == Head(x) * k + cy
         IN  <<t % 16>> \o HexMul(Tail(x), k, t \div 16)

\* <<quotient, remainder>> of x divided by d; the quotient has the digits
\* of x, leading zeros included
RECURSIVE HexDivRem(_, _)
HexDivRem(x, d) ==
    IF x = <<>> THEN <<<<>>, 0>>
    ELSE LET hi == HexDivRem(Tail(x), d)
             t == hi[2] * 16 + Head(x)
         IN  <<<<t \div d>> \o hi[1], t % d>>

\* x + v * 16^i
RECURSIVE HexAdd(_, _, _)
HexAdd(x, i, v) ==
    IF v = 0 THEN x
    ELSE IF x = <<>> THEN HexAdd(<<0>>, i, v)
    ELSE IF i > 0 THEN <<Head(x)>> \o HexAdd(Tail(x), i - 1, v)
    ELSE LET t == Head(x) + v
         IN  <<t % 16>> \o HexAdd(Tail(x), 0, t \div 16)

\* number of significant bits of x
RECURSIVE HexBits(_)
HexBits(x) ==
    IF x = <<>> THEN 0
    ELSE LET hi == HexBits(Tail(x))
             d == Head(x)
         IN  IF hi > 0 THEN hi + 4
             ELSE IF d = 0 THEN 0 ELSE IF d < 2 THEN 1 ELSE IF d < 4 THEN 2
             ELSE IF d < 8 THEN 3 ELSE 4

\* (unsigned long) of the double that an arithmetic operation with the exact
\* result p / 16^fd delivers: the result is rounded to the nearest value
\* with 53 significant bits, the conversion drops the fraction.  (On a tie
\* the even neighbour is taken; a tie that is rounded up to a whole number
\* is rounded to an even one, so adding half a unit of the last place gives
\* the same integer.)
DoubleToULong(p, fd) ==
    LET n == HexBits(p)
        q == IF n > 53 THEN HexAdd(p, (n - 54) \div 4, 2 ^ ((n - 54) % 4)) ELSE p
    IN  HexVal(SubSeq(q, fd + 1, Len(q)))

\* ------------------------------------------------------------------------
\* AD9951 DDS: set_frequency() and spi_send_byte() on PB12..PB14
\* ------------------------------------------------------------------------
\* The literal 10.73741824 as a double is 0x1.5798EE2308C3Ap+3, which is
\* 0xABCC77118461D / 2^48.
DDS_SCALE == <<13, 1, 6, 4, 8, 1, 1, 7, 7, 12, 12, 11, 10>>

\* Mutant of DdsWord: the product is rounded to the nearest integer.
DdsWord_nearest(f) ==
    DoubleToULong(HexAdd(HexMul(DDS_SCALE, f + INTERFREQUENCY, 0), 11, 8), 12)

\* fword = (unsigned long) (f + INTERFREQUENCY) * 10.73741824;
\* The cast applies to the sum, the product is formed in double and the
\* assignment converts it to unsigned long.  (For the frequencies of the
\* band plan neither the sum nor the product leaves 32 bits.)
DdsWord(f) == DoubleToULong(HexMul(DDS_SCALE, f + INTERFREQUENCY, 0), 12)

\* Mutant of ResultByte: the least significant byte first.
ResultByte_lsb(w, t1) == (w \div 2 ^ (8 * t1)) % 256

\* resultbyte = (fword & comparebyte) >> shiftbyte; in pass t1 of the loop
\* comparebyte is 0xFF000000 >> 8 * t1 and shiftbyte is 24 - 8 * t1.
ResultByte(w, t1) == (w \div 2 ^ (24 - 8 * t1)) % 256

\* Mutant of SpiBit: the least significant bit first.
SpiBit_lsb(sb, t1) == (sb \div 2 ^ t1) % 2

\* sbyte & x, as 0 or 1; in pass t1 of the loop x is (1 << 7) >> t1.
SpiBit(sb, t1) == (sb \div 2 ^ (7 - t1)) % 2

\* The byte that 8 sampled levels make, first level most significant.
RECURSIVE BitsValue(_)
BitsValue(b) ==
    IF b = <<>> THEN 0 ELSE 2 * BitsValue(SubSeq(b, 1, Len(b) - 1)) + b[Len(b)]

SfFrame == UNCHANGED <<radioVars, irqVars, eeprom, pll, relay, mainVars, isrVars, cntVars,
                       eeVars, keyVars, histVars, synthVars>>

\* Entry of set_frequency(f): f = frequency; fword = ...
SfCall(f) ==
    /\ sf_pc = "idle" /\ ncalls < MaxCalls
    /\ ncalls' = ncalls + 1
    /\ sf_f' = f
    /\ fword' = DdsWord(f)
    /\ sf_t1' = 0
    /\ sf_pc' = "strobe_lo"
    /\ link' = <<>> /\ bits' = <<>>
    /\ UNCHANGED <<dds, spi_pc, sbyte, spi_t1, io_ud, sdio, sclk>>
    /\ SfFrame

\* DDS_GPIO->ODR &= ~(1 << DDS_IO_UD);
SfStrobeLow ==
    /\ sf_pc = "strobe_lo"
    /\ io_ud' = 0
    /\ link' = Append(link, <<"io_ud", 0>>)
    /\ sf_pc' = "instr"
    /\ UNCHANGED <<dds, sf_f, fword, sf_t1, ncalls, spi_pc, sbyte, spi_t1, sdio, sclk, bits>>
    /\ SfFrame

\* spi_send_byte(0x04): the call
SfInstr ==
    /\ sf_pc = "instr"
    /\ sbyte' = 4 /\ spi_t1' = 0 /\ spi_pc' = "lo"
    /\ bits' = <<>>
    /\ sf_pc' = "in_instr"
    /\ UNCHANGED <<dds, sf_f, fword, sf_t1, ncalls, io_ud, sdio, sclk, link>>
    /\ SfFrame

\* for(t1 = 0; t1 < 4; t1++) { resultbyte = ...; spi_send_byte(resultbyte); }
\* the call of pass t1
SfByte ==
    /\ sf_pc = "loop" /\ sf_t1 < 4
    /\ sbyte' = ResultByte(fword, sf_t1) /\ spi_t1' = 0 /\ spi_pc' = "lo"
    /\ bits' = <<>>
    /\ sf_pc' = "in_byte"
    /\ UNCHANGED <<dds, sf_f, fword, sf_t1, ncalls, io_ud, sdio, sclk, link>>
    /\ SfFrame

\* DDS_GPIO->ODR |= (1 << DDS_IO_UD); and the return.  The DDS takes the
\* word over with the rising strobe.
SfStrobeHigh ==
    /\ sf_pc = "loop" /\ sf_t1 = 4
    /\ io_ud' = 1
    /\ link' = Append(link, <<"io_ud", 1>>)
    /\ dds' = sf_f
    /\ sf_pc' = "idle"
    /\ UNCHANGED <<sf_f, fword, sf_t1, ncalls, spi_pc, sbyte, spi_t1, sdio, sclk, bits>>
    /\ SfFrame

\* spi_send_byte: DDS_GPIO->ODR &= ~(1 << DDS_SCLK);
SpiClkLow ==
    /\ spi_pc = "lo"
    /\ sclk' = 0
    /\ spi_pc' = "data"
    /\ UNCHANGED <<dds, sf_pc, sf_f, fword, sf_t1, ncalls, sbyte, spi_t1, io_ud, sdio,
                   bits, link>>
    /\ SfFrame

\* if(sbyte & x) ODR |= (1 << DDS_SDIO); else ODR &= ~(1 << DDS_SDIO);
SpiData ==
    /\ spi_pc = "data"
    /\ sdio' = SpiBit(sbyte, spi_t1)
    /\ spi_pc' = "hi"
    /\ UNCHANGED <<dds, sf_pc, sf_f, fword, sf_t1, ncalls, sbyte, spi_t1, io_ud, sclk,
                   bits, link>>
    /\ SfFrame

\* DDS_GPIO->ODR |= (1 << DDS_SCLK); x >>= 1; and t1++ with the loop test.
\* The DDS samples SDIO when SCLK rises; 8 samples make a byte.
SpiClkHigh ==
    /\ spi_pc = "hi"
    /\ sclk' = 1
    /\ bits' = IF sclk = 0 THEN Append(bits, sdio) ELSE bits
    /\ link' = IF Len(bits') = 8 /\ bits' # bits
               THEN Append(link, <<"byte", BitsValue(bits')>>) ELSE link
    /\ spi_t1' = spi_t1 + 1
    /\ spi_pc' = IF spi_t1 + 1 < 8 THEN "lo" ELSE "ret"
    /\ UNCHANGED <<dds, sf_pc, sf_f, fword, sf_t1, ncalls, sbyte, io_ud, sdio>>
    /\ SfFrame

\* the return of spi_send_byte to set_frequency: its locals die; after the
\* call in the loop, t1++
SpiReturn ==
    /\ spi_pc = "ret"
    /\ spi_pc' = "idle" /\ sbyte' = 0 /\ spi_t1' = 0
    /\ sf_pc' = "loop"
    /\ sf_t1' = IF sf_pc = "in_byte" THEN sf_t1 + 1 ELSE sf_t1
    /\ UNCHANGED <<dds, sf_f, fword, ncalls, io_ud, sdio, sclk, bits, link>>
    /\ SfFrame

\* ------------------------------------------------------------------------
\* Si5351: si5351_start() and si5351_set_freq()
\* ------------------------------------------------------------------------
\* The registers the program writes: PLLX_SRC, CLKx_CONTROL, the 8 registers
\* of PLLA and of multisynth 0, and the four set-up registers.
SiRegs == {3, 15, 16, 17, 18, 149, 177, 183}
          \cup (SYNTH_PLL_A .. (SYNTH_PLL_A + 7)) \cup (SYNTH_MS_0 .. (SYNTH_MS_0 + 7))

\* i2c_write_byte1(base + i - 1, b[i], SI5351_ADR) for i = 1..8
WriteBlock(regs, base, b) ==
    [r \in SiRegs |-> IF r \in base .. (base + 7) THEN b[r - base + 1] ELSE regs[r]]

\* p1 = 128 * a + (unsigned long) floor(128 * b / c) - 512;
\* p2 = 128 * b - c * (unsigned long) floor(128 * b / c);
\* 128 * b / c is a division of unsigned longs.
SiP1(a, b, c) == 128 * a + (128 * b) \div c - 512
SiP2(a, b, c) == 128 * b - c * ((128 * b) \div c)

\* Mutant of StartBytes: bits 19:16 of p3 are left out of the sixth byte.
StartBytes_low(p1, p2) ==
    <<255, 255, (p1 \div 65536) % 4, (p1 \div 256) % 256, p1 % 256,
      (p2 \div 65536) % 16, (p2 \div 256) % 256, p2 % 256>>

\* The 8 bytes si5351_start() writes to SYNTH_PLL_A ..: 0xFF, 0xFF,
\* (p1 & 0x00030000) >> 16, (p1 & 0x0000FF00) >> 8, p1 & 0xFF,
\* 0xF0 | ((p2 & 0x000F0000) >> 16), (p2 & 0x0000FF00) >> 8, p2 & 0xFF
StartBytes(p1, p2) ==
    <<255, 255, (p1 \div 65536) % 4, (p1 \div 256) % 256, p1 % 256,
      240 + ((p2 \div 65536) % 16), (p2 \div 256) % 256, p2 % 256>>

\* The 8 bytes si5351_set_freq() writes to synth ..: (p3 & 0xFF00) >> 8,
\* p3 & 0xFF, (p1 >> 16) & 0x03, (p1 & 0xFF00) >> 8, p1 & 0xFF,
\* (p3 & 0xF0) | ((p2 >> 16) & 0x0F), (p2 & 0x0000FF00) >> 8, p2 & 0xFF
MsBytes(p1, p2, p3) ==
    <<(p3 \div 256) % 256, p3 % 256, (p1 \div 65536) % 4, (p1 \div 256) % 256, p1 % 256,
      16 * ((p3 \div 16) % 16) + ((p2 \div 65536) % 16), (p2 \div 256) % 256, p2 % 256>>

\* double fdiv = (double) (f_xtal * PLLRATIO) / freq, as the hexadecimal
\* digits of fdiv * 2^48.  For 6250000 < freq <= 12500000 the quotient lies
\* in [64, 128) and the double keeps 46 bits of its fraction: the quotient
\* is formed with 47, rounded to nearest, and the two low bits are zero.
\* (f_xtal * PLLRATIO = 2^11 * 5^8 and freq < 2^24: no quotient is a tie.)
SiFdiv(freq) ==
    LET d == <<0, 0, 0, 0, 0, 0, 0, 0, 0, 0, 0>> \o HexMul(HexDigits(FXTAL * PLLRATIO), 8, 0)
        q == HexAdd(HexDivRem(d, freq)[1], 0, 1)
    IN  HexMul(<<Head(q) - (Head(q) % 2)>> \o Tail(q), 2, 0)

\* a = (unsigned long) fdiv;
SiA(freq) == HexVal(SubSeq(SiFdiv(freq), 13, Len(SiFdiv(freq))))

\* Mutant of SiB: rm * c is rounded to the nearest integer.
SiB_nearest(freq) ==
    DoubleToULong(HexAdd(HexMul(SubSeq(SiFdiv(freq), 1, 12), PLL_C, 0), 11, 8), 12)

\* rm = fdiv - a; b = (unsigned long) (rm * c);  The difference is exact,
\* the product is a double again.
SiB(freq) == DoubleToULong(HexMul(SubSeq(SiFdiv(freq), 1, 12), PLL_C, 0), 12)

SiFrame == UNCHANGED <<radioVars, irqVars, eeprom, dds, relay, mainVars, isrVars, cntVars,
                       eeVars, keyVars, histVars, ddsVars>>

\* si5351_start(): a = PLLRATIO, b = 0, c = 0xFFFFF
si5351_start ==
    /\ si_pc = "reset"
    /\ LET r0 == [si_regs EXCEPT ![15] = 0, ![149] = 0, ![183] = 210, ![3] = 0,
                                  ![16] = 14, ![17] = 14, ![18] = 14, ![177] = 32]
       IN  si_regs' = WriteBlock(r0, SYNTH_PLL_A,
                                 StartBytes(SiP1(PLLRATIO, 0, PLL_C), SiP2(PLLRATIO, 0, PLL_C)))
    /\ si_pc' = "started"
    /\ UNCHANGED <<si_freq, pll>>
    /\ SiFrame

\* si5351_set_freq(SYNTH_MS_0, freq)
si5351_set_freq(freq) ==
    /\ si_pc = "started"
    /\ si_freq' = freq
    /\ si_regs' = WriteBlock(si_regs, SYNTH_MS_0,
                             MsBytes(SiP1(SiA(freq), SiB(freq), PLL_C),
                                     SiP2(SiA(freq), SiB(freq), PLL_C), PLL_C))
    /\ pll' = freq
    /\ si_pc' = "set"
    /\ SiFrame

\* ------------------------------------------------------------------------
\* Initial states
\* ------------------------------------------------------------------------
\* RAM after reset: the globals are zero-initialised (.bss/.data).
InitRam ==
    /\ cur_vfo = 0 /\ cur_band = 0 /\ sideband = 0
    /\ f_lo = [s \in Vfos |-> 0]
    /\ f_vfo = [b \in Bands |-> [v \in Vfos |-> 0]]
    /\ tuning = 0 /\ pulses = 0 /\ runsecs = 0 /\ runsecs_msg = 0
    /\ dds = 0 /\ pll = 0 /\ relay = 0
    /\ runsecs_meas = 0 /\ key = 0 /\ lo_sb = 0 /\ f_lo_tmp = 0
    /\ inkeys = FALSE /\ secs0 = 0 /\ rd_t0 = 0 /\ rd_p1 = 0 /\ rd_p2 = 0
    /\ exti_pc = "idle" /\ exti_dir = 0 /\ exti_ld = 0 /\ tim_pc = "idle"
    /\ nedges = 0 /\ nticks = 0 /\ nkeys = 0
    /\ kpc = "idle" /\ adcval0 = 0 /\ adcval1 = 0 /\ adcvalcnt = 0
    /\ swap_from = <<>> /\ msg_at = -1
    /\ sf_pc = "idle" /\ sf_f = 0 /\ fword = 0 /\ sf_t1 = 0 /\ ncalls = 0
    /\ spi_pc = "idle" /\ sbyte = 0 /\ spi_t1 = 0
    /\ io_ud = 0 /\ sdio = 0 /\ sclk = 0
    /\ bits = <<>> /\ link = <<>>
    /\ si_pc = "reset" /\ si_freq = 0
    /\ si_regs = [r \in SiRegs |-> -1]

EeIdle ==
    /\ ee_pc = "idle" /\ ee_band = 0 /\ ee_vfo = 0
    /\ ee_arg = <<0, 0, 0, 0>> /\ ee_ret = 0

\* EEPROM contents at power-on.  A new 24C65 reads 0xFF everywhere; the
\* factory image is what the program itself writes for its default state.
BlankImage == [a \in EAddr |-> 255]
ZeroImage == [a \in EAddr |-> 0]
FactoryImage ==
    LET m0 == save_all_vfos(BlankImage, f_vfo0, 0)
        m1 == eeprom_store_frequency(m0, LO_SLOT, 0, INTERFREQUENCY - LO_DEFAULT_OFFSET)
        m2 == eeprom_store_frequency(m1, LO_SLOT, 1, INTERFREQUENCY + LO_DEFAULT_OFFSET)
    IN  eeprom_write(m2, ADR_LAST_BAND, 2)
BaseImages == {BlankImage, ZeroImage, FactoryImage}

\* Values placed in one field of a base image: the band edges and their
\* neighbours, a small value, all-ones, and an in-band value with bit 31 set.
SlotValues(b) ==
    IF b < MAXBANDS
    THEN {band_f0[b] - 1, band_f0[b], band_f1[b], band_f1[b] + 1, 999, -1,
          f_vfo0[b][0] + MinLong}
    ELSE {INTERFREQUENCY - LO_WINDOW - 1, INTERFREQUENCY - LO_WINDOW,
          INTERFREQUENCY + LO_WINDOW, INTERFREQUENCY + LO_WINDOW + 1, 999, -1,
          INTERFREQUENCY + MinLong}
BandBytes == {0, 2, 7, 8, 9, 255}
VfoBytes == {0, 1, 2, 255}

BootImages ==
    UNION { { eeprom_write(
                  eeprom_write(eeprom_store_frequency(base, b, v, f), ADR_LAST_BAND, bb),
                  ADR_LAST_VFO, vb) :
                base \in BaseImages, v \in Vfos, f \in SlotValues(b),
                bb \in BandBytes, vb \in VfoBytes } :
            b \in 0 .. LO_SLOT }

InitBoot ==
    /\ InitRam
    /\ EeIdle
    /\ pc = "boot"
    /\ eeprom \in BootImages

NextBoot == Boot \/ BootLoad \/ BootLoStep \/ BootRelay

\* Power-on with any EEPROM image of BootImages, then the boot sequence.
SpecBoot == InitBoot /\ [][NextBoot]_vars

\* ------------------------------------------------------------------------
\* C1: after load_all_vfos, every VFO frequency lies inside its band,
\* band_f0[b] <= f_vfo[b][v] <= band_f1[b], whatever the EEPROM held.
\* ------------------------------------------------------------------------
C1_BandPlan ==
    pc = "loop" =>
        \A b \in Bands : \A v \in Vfos :
            band_f0[b] <= f_vfo[b][v] /\ f_vfo[b][v] <= band_f1[b]

\* A boot in which one field was rejected (bit 31 set, decoding to a
\* negative long) and another, non-default one was kept.
C1_Witness ==
    /\ pc = "loop"
    /\ \E b \in Bands : \E v \in Vfos :
          /\ eeprom_load_frequency(eeprom, b, v) < 0
          /\ f_vfo[b][v] = f_vfo0[b][v]
    /\ \E b \in Bands : \E v \in Vfos :
          /\ f_vfo[b][v] # f_vfo0[b][v]
          /\ f_vfo[b][v] = eeprom_load_frequency(eeprom, b, v)

\* ------------------------------------------------------------------------
\* C12: at boot a last-band byte outside 0..7 (e.g. 9) gives cur_band = 2
\* and a last-VFO byte outside 0..1 gives cur_vfo = 0; a byte inside the
\* valid range is taken unchanged.
\* ------------------------------------------------------------------------
C12_BootIndexes ==
    pc = "loop" =>
        LET b == eeprom[ADR_LAST_BAND]
            v == eeprom[ADR_LAST_VFO]
        IN  /\ cur_band = IF b \in 0 .. 7 THEN b ELSE 2
            /\ cur_vfo = IF v \in 0 .. 1 THEN v ELSE 0
            /\ b = 9 => cur_band = 2

\* Booted from a store holding band 9 and VFO 1.
C12_Witness ==
    /\ pc = "loop"
    /\ eeprom[ADR_LAST_BAND] = 9 /\ cur_band = 2
    /\ eeprom[ADR_LAST_VFO] = 1 /\ cur_vfo = 1

\* ------------------------------------------------------------------------
\* C13: at boot every VFO slot whose decoded value is outside its band is
\* replaced by f_vfo0[band][vfo] (slot (3,0) holding 999 becomes
\* 14,200,000) and every slot whose decoded value is in band is kept.
\* ------------------------------------------------------------------------
C13_SlotDefaults ==
    pc = "loop" =>
        /\ \A b \in Bands, v \in Vfos :
              LET f == eeprom_load_frequency(eeprom, b, v)
              IN  f_vfo[b][v] = IF band_f0[b] <= f /\ f <= band_f1[b]
                                THEN f ELSE f_vfo0[b][v]
        /\ eeprom_load_frequency(eeprom, 3, 0) = 999 => f_vfo[3][0] = 14200000

\* Booted with 999 in slot (3,0) and the upper band edge kept in (3,1).
C13_Witness ==
    /\ pc = "loop"
    /\ eeprom_load_frequency(eeprom, 3, 0) = 999 /\ f_vfo[3][0] = 14200000
    /\ f_vfo[3][1] = f_vfo0[3][1]
    /\ f_vfo[2][0] = eeprom_load_frequency(eeprom, 2, 0)

\* ------------------------------------------------------------------------
\* C14: after the boot sequence |f_lo[s] - 10,000,000| <= 3000 for both
\* sidebands s, whatever the EEPROM held.
\* ------------------------------------------------------------------------
C14_LoWindow ==
    pc = "loop" =>
        \A s \in Vfos : f_lo[s] - 10000000 \in -3000 .. 3000

\* Booted with an LO field that decodes to a negative long.
C14_Witness ==
    /\ pc = "loop"
    /\ eeprom_load_frequency(eeprom, LO_SLOT, 0) < 0
    /\ f_lo[0] = 9998500

\* ------------------------------------------------------------------------
\* C15: at boot an LO value outside [nominal - 3000, nominal + 3000] is
\* replaced by nominal - 1500 for sideband 0 and nominal + 1500 for
\* sideband 1, a value inside the window (bounds included) is kept, and
\* each pass of the loop programs the PLL once, with the resulting value.
\* ------------------------------------------------------------------------
C15_LoDefaults ==
    [][\A t1 \in Vfos :
          ((pc = "boot_lo0" /\ pc' = "boot_lo1" /\ t1 = 0) \/
           (pc = "boot_lo1" /\ pc' = "boot_relay" /\ t1 = 1)) =>
              LET f == eeprom_load_frequency(eeprom, LO_SLOT, t1)
              IN  /\ f_lo'[t1] = IF 9997000 <= f /\ f <= 10003000 THEN f
                                 ELSE IF t1 = 0 THEN 9998500 ELSE 10001500
                  /\ f_lo'[1 - t1] = f_lo[1 - t1]
                  /\ pll' = f_lo'[t1]]_vars

\* Both passes done: the stored value kept for sideband 0, nominal + 3001
\* replaced for sideband 1, the PLL holding the latter.
C15_Witness ==
    /\ pc = "boot_relay"
    /\ eeprom_load_frequency(eeprom, LO_SLOT, 1) = 10003001
    /\ f_lo[1] = 10001500 /\ pll = 10001500
    /\ f_lo[0] = eeprom_load_frequency(eeprom, LO_SLOT, 0)

\* ------------------------------------------------------------------------
\* The control program: boot, control loop and set_lo, with the two
\* interrupt handlers as single steps
\* ------------------------------------------------------------------------
\* An EEPROM that the program has used: last band b, last VFO v, that slot
\* saved at the lower band edge, both LO values calibrated.
UsedImage(b, v) ==
    LET m0 == eeprom_store_frequency(FactoryImage, b, v, band_f0[b])
        m1 == eeprom_store_frequency(m0, LO_SLOT, 0, INTERFREQUENCY - 1400)
        m2 == eeprom_store_frequency(m1, LO_SLOT, 1, INTERFREQUENCY + 1600)
    IN  eeprom_write(eeprom_write(m2, ADR_LAST_BAND, b), ADR_LAST_VFO, v)

\* A new EEPROM in which only the last band was written.
FreshImage(b) == eeprom_write(BlankImage, ADR_LAST_BAND, b)

CtlImages == {UsedImage(0, 1), FreshImage(7)}

Init ==
    /\ InitRam
    /\ EeIdle
    /\ pc = "boot"
    /\ eeprom \in CtlImages

Next ==
    \/ Boot
    \/ MainTune \/ MainClear
    \/ KeysEnter
    \/ \E k \in KeyCodes : MainDispatch(k)
    \/ MainHouse
    \/ \E k \in KeyCodes : LoDrain(k)
    \/ \E k \in KeyCodes : LoKey(k)
    \/ LoBody \/ LoClear \/ LoEnd
    \/ \E state \in PinStates : EXTI0_IRQHandler(state)
    \/ TIM2_IRQHandler

Spec == Init /\ [][Next]_vars

\* ------------------------------------------------------------------------
\* The tuning path with the handlers run statement by statement under the
\* NVIC priorities: boot, control loop without key presses
\* ------------------------------------------------------------------------
InitIrq ==
    /\ InitRam
    /\ EeIdle
    /\ pc = "boot"
    /\ eeprom \in {BlankImage, UsedImage(7, 0)}

NextIrq ==
    \/ Boot
    \/ MainTest \/ MainRead1 \/ MainRead2 \/ MainApply \/ MainClear
    \/ KeysEnter
    \/ MainDispatch(-1)
    \/ MainHouse
    \/ \E state \in PinStates : ExtiEnter(state)
    \/ ExtiTuning \/ ExtiLoad \/ ExtiStore
    \/ TimEnter \/ TimClear \/ TimInc

SpecIrq == InitIrq /\ [][NextIrq]_vars

\* ------------------------------------------------------------------------
\* The tuning block entered with pulses already counted: the encoder and
\* timer interrupts are enabled before the boot sequence loads the state,
\* so for(;;) can be reached with up to MaxPulses edges counted in the
\* current tick and tuning set by the last of them.
\* ------------------------------------------------------------------------
InitTune ==
    /\ cur_vfo = 0 /\ cur_band = 0 /\ sideband = 0
    /\ f_lo = [s \in Vfos |-> 0]
    /\ f_vfo = [b \in Bands |-> [v \in Vfos |-> 0]]
    /\ pulses \in 0 .. MaxPulses
    /\ tuning \in {-1, 0, 1}
    /\ pulses > 0 => tuning # 0
    /\ runsecs = 0 /\ runsecs_msg = 0
    /\ dds = 0 /\ pll = 0 /\ relay = 0
    /\ runsecs_meas = 0 /\ key = 0 /\ lo_sb = 0 /\ f_lo_tmp = 0
    /\ inkeys = FALSE /\ secs0 = 0 /\ rd_t0 = 0 /\ rd_p1 = 0 /\ rd_p2 = 0
    /\ exti_pc = "idle" /\ exti_dir = 0 /\ exti_ld = 0 /\ tim_pc = "idle"
    /\ nedges = 0 /\ nticks = 0 /\ nkeys = 0
    /\ kpc = "idle" /\ adcval0 = 0 /\ adcval1 = 0 /\ adcvalcnt = 0
    /\ swap_from = <<>> /\ msg_at = -1
    /\ sf_pc = "idle" /\ sf_f = 0 /\ fword = 0 /\ sf_t1 = 0 /\ ncalls = 0
    /\ spi_pc = "idle" /\ sbyte = 0 /\ spi_t1 = 0
    /\ io_ud = 0 /\ sdio = 0 /\ sclk = 0
    /\ bits = <<>> /\ link = <<>>
    /\ si_pc = "reset" /\ si_freq = 0
    /\ si_regs = [r \in SiRegs |-> -1]
    /\ EeIdle
    /\ pc = "boot"
    /\ eeprom = BlankImage

SpecTune == InitTune /\ [][NextIrq]_vars

C2_AtomicReadClear ==
    [][(exti_pc = "idle" /\ exti_pc' = "tuning") => pc # "clear"]_vars

InSetLo == pc \in {"lo_drain", "lo_key0", "lo_key", "lo_test", "lo_clear", "lo_end"}

C8_StoreProgramsPll ==
    [][(pc = "lo_end" /\ key = 7 /\ pc' = "house") =>
          /\ f_lo'[lo_sb] = f_lo_tmp
          /\ eeprom_load_frequency(eeprom', LO_SLOT, lo_sb) = f_lo_tmp
          /\ pll' = f_lo_tmp]_vars

\* ------------------------------------------------------------------------
\* C9: when set_lo(sb) ends with the abort key (code 6), f_lo[0], f_lo[1]
\* and every EEPROM byte are what they were before the call (no step from
\* the call to its return other than the store case writes them), and the
\* frequency last programmed into the PLL is the pre-existing f_lo[sb].
\* ------------------------------------------------------------------------
C9_AbortFrame ==
    [][/\ ((InSetLo \/ InSetLo') /\ ~(pc = "lo_end" /\ key = 7)) =>
              (f_lo' = f_lo /\ eeprom' = eeprom)
       /\ (pc = "lo_end" /\ key = 6 /\ pc' = "house") => pll' = f_lo[lo_sb]]_vars

\* set_lo has returned through the abort case after the LO was tuned away
\* from f_lo[sb].
C9_Witness ==
    /\ pc = "house" /\ key = 6
    /\ f_lo_tmp # f_lo[lo_sb]
    /\ pll = f_lo[lo_sb]

\* ------------------------------------------------------------------------
\* C10 (as stated): every band or VFO change writes the radio state back,
\* so that the frequency of the slot that was tuned before the change is in
\* the EEPROM after it.
\* ------------------------------------------------------------------------
C10_ChangePersists ==
    [][(pc = "keys" /\ (cur_band' # cur_band \/ cur_vfo' # cur_vfo)) =>
          eeprom_load_frequency(eeprom', cur_band, cur_vfo) = f_vfo[cur_band][cur_vfo]]_vars

\* C10 (amended): a band change writes the band number to byte 256 and
\* nothing else, a VFO change writes the VFO number to byte 257 and nothing
\* else; the 8 x 2 frequencies are written only by save_all_vfos (with the
\* VFO number, not the band number); a tuning event writes nothing.
C10_WriteBack ==
    [][/\ (pc = "keys" /\ cur_band' # cur_band) =>
              eeprom' = eeprom_write(eeprom, ADR_LAST_BAND, cur_band')
       /\ (pc = "keys" /\ cur_vfo' # cur_vfo) =>
              eeprom' = eeprom_write(eeprom, ADR_LAST_VFO, cur_vfo')
       /\ (pc = "keys" /\ pc' = "house" /\ key' = 4) =>
              /\ \A b \in Bands, v \in Vfos :
                    eeprom_load_frequency(eeprom', b, v) = f_vfo[b][v]
              /\ eeprom_read(eeprom', ADR_LAST_VFO) = cur_vfo
              /\ eeprom_read(eeprom', ADR_LAST_BAND) = eeprom_read(eeprom, ADR_LAST_BAND)
       /\ (f_vfo' # f_vfo) => eeprom' = eeprom]_vars

\* A band change made after tuning: the tuned frequency is in RAM only.
C10_Witness ==
    /\ pc = "house" /\ key = 0 /\ cur_band = 1 /\ cur_vfo = 1
    /\ f_vfo[0][1] = band_f0[0] + 1
    /\ eeprom_load_frequency(eeprom, 0, 1) = band_f0[0]
    /\ eeprom_read(eeprom, ADR_LAST_BAND) = 1

\* ------------------------------------------------------------------------
\* C16: band down at band 0 and band up at band 7 are no-ops: cur_band,
\* cur_vfo, f_vfo, the DDS frequency, the relay bits, the PLL frequency and
\* the EEPROM are unchanged.
\* ------------------------------------------------------------------------
C16_BandEdgesNoOp ==
    [][(pc = "keys" /\ pc' = "house" /\
        ((key' = 3 /\ cur_band = 0) \/ (key' = 0 /\ cur_band = 7))) =>
          UNCHANGED <<cur_band, cur_vfo, f_vfo, dds, relay, pll, eeprom>>]_vars

\* Booted on band 0, the first key is band down.
C16_Witness ==
    /\ pc = "house" /\ key = 3 /\ nkeys = 1
    /\ cur_band = 0 /\ eeprom[ADR_LAST_BAND] = 0
    /\ relay = 0

\* ------------------------------------------------------------------------
\* C17: after a band-up or band-down key that changes the band, the DDS
\* has been programmed with f_vfo[new band][cur_vfo], PA10..PA12 carry the
\* binary encoding of the new band index, the PLL has been programmed with
\* f_lo[pref_sideband[new band]] and EEPROM byte 256 is the new band index.
\* ------------------------------------------------------------------------
C17_BandChange ==
    [][(pc = "keys" /\ cur_band' # cur_band) =>
          /\ cur_band' = cur_band + (IF key' = 0 THEN 1 ELSE -1)
          /\ key' \in {0, 3}
          /\ dds' = f_vfo[cur_band'][cur_vfo]
          /\ relay' \in 0 .. 7
          /\ \A t1 \in 0 .. 2 : (relay' \div (2 ^ t1)) % 2 = (cur_band' \div (2 ^ t1)) % 2
          /\ pll' = f_lo[pref_sideband[cur_band']]
          /\ eeprom'[ADR_LAST_BAND] = cur_band']_vars

\* Band up from band 0 after the sideband flag was toggled to USB: the PLL
\* carries the LSB oscillator of band 1.
C17_Witness ==
    /\ pc = "house" /\ key = 0 /\ nkeys = 2
    /\ cur_band = 1 /\ sideband = 1
    /\ relay = 1 /\ dds = f_vfo[1][cur_vfo]
    /\ pll = f_lo[0] /\ eeprom[ADR_LAST_BAND] = 1

\* ------------------------------------------------------------------------
\* C18: the VFO-swap key toggles cur_vfo between 0 and 1, programs the DDS
\* with f_vfo[cur_band][new vfo] and leaves EEPROM byte 257 equal to the new
\* VFO; the second of two presses in a row restores the cur_vfo and the DDS
\* frequency that were there before the first.
\* ------------------------------------------------------------------------
C18_VfoSwap ==
    [][(pc = "keys" /\ pc' = "house" /\ key' = 2) =>
          /\ cur_vfo' = 1 - cur_vfo
          /\ dds' = f_vfo[cur_band][cur_vfo']
          /\ eeprom'[ADR_LAST_VFO] = cur_vfo'
          /\ swap_from # <<>> => (cur_vfo' = swap_from[1] /\ dds' = swap_from[2])]_vars

\* ------------------------------------------------------------------------
\* C19: the sideband-toggle key changes only the sideband flag: cur_band,
\* cur_vfo, f_vfo, f_lo, the DDS frequency, the PLL frequency, the relay
\* bits and the EEPROM are unchanged.
\* ------------------------------------------------------------------------
C19_SidebandOnly ==
    [][(pc = "keys" /\ pc' = "house" /\ key' = 1) =>
          /\ sideband' = 1 - sideband
          /\ UNCHANGED <<cur_band, cur_vfo, f_vfo, f_lo, dds, pll, relay, eeprom>>]_vars

\* The flag toggled away from the preferred sideband, the PLL still on the
\* oscillator of the preferred one.
C19_Witness ==
    /\ pc = "house" /\ key = 1 /\ nkeys = 1
    /\ sideband # pref_sideband[cur_band]
    /\ pll = f_lo[pref_sideband[cur_band]]
    /\ f_lo[0] # f_lo[1]

\* ------------------------------------------------------------------------
\* C20: a tuning event adds the delta to f_vfo[cur_band][cur_vfo] without
\* clamping to the band bounds (the result may lie outside [band_f0,
\* band_f1]), programs the DDS with the result, and leaves the other 15 VFO
\* slots, f_lo, cur_band and cur_vfo unchanged.
\* ------------------------------------------------------------------------
C20_TuningFrame ==
    [][(pc = "loop" /\ pc' = "clear") =>
          /\ f_vfo'[cur_band][cur_vfo] =
                f_vfo[cur_band][cur_vfo] + pulses * pulses * tuning
          /\ dds' = f_vfo'[cur_band][cur_vfo]
          /\ \A b \in Bands, v \in Vfos :
                (b # cur_band \/ v # cur_vfo) => f_vfo'[b][v] = f_vfo[b][v]
          /\ UNCHANGED <<f_lo, cur_band, cur_vfo>>]_vars

\* One click down from the lower edge of the 160 m band: the slot and the
\* DDS are 1 Hz below the band.
C20_Witness ==
    /\ pc = "clear" /\ cur_band = 0 /\ cur_vfo = 1
    /\ f_vfo[0][1] = band_f0[0] - 1
    /\ dds = band_f0[0] - 1

\* ------------------------------------------------------------------------
\* get_keys() called again and again while the time base runs
\* ------------------------------------------------------------------------
InitKeys ==
    /\ InitRam /\ EeIdle
    /\ pc = "halt"
    /\ eeprom = BlankImage

NextKeys ==
    \/ \E s \in AdcSamples : KpEntry(s)
    \/ \E s \in AdcSamples : KpTest(s)
    \/ \E s \in AdcSamples : KpBody(s)
    \/ KpMean
    \/ KpMatch
    \/ KpReturn
    \/ TIM2_IRQHandler

SpecKeys == InitKeys /\ [][NextKeys]_vars

\* ------------------------------------------------------------------------
\* C6 (as stated): a mean sample value of 1800 matches none of the six
\* windows and get_keys returns -1 for it, whatever the hold duration.
\* ------------------------------------------------------------------------
C6_Mean1800NoKey ==
    [][(kpc = "match" /\ kpc' = "ret" /\ adcval0 = 1800) => key' = -1]_vars

\* C6 (amended): a mean of 1800 lies in the window of key 4 (1863 +- 100,
\* bounds excluded) and get_keys returns 4 or 10 for it; a mean that lies
\* in none of the six windows is returned as -1, whatever the hold duration.
C6_MeanClassified ==
    [][(kpc = "match" /\ kpc' = "ret") =>
          LET centre == <<370, 735, 1320, 2462, 1863, 3135>>
          IN  /\ adcval0 = 1800 => key' \in {4, 10}
              /\ (\A k \in 1 .. 6 : adcval0 <= centre[k] - 100 \/ adcval0 >= centre[k] + 100)
                    => key' = -1]_vars

\* A key held for two ticks whose samples average 1800.
C6_Witness ==
    /\ kpc = "ret" /\ adcval0 = 1800 /\ adcvalcnt = 2
    /\ key = 10 /\ runsecs - secs0 = 2

\* ------------------------------------------------------------------------
\* C7: when the mean matches the window of key k (0..5), get_keys returns k
\* if runsecs has advanced by fewer than 2 ticks since the entry (runsecs as
\* read by the comparison that follows the release) and k + 6 otherwise; a
\* mean in 320..420 gives 0 for a short press and 6 for a long one.
\* ------------------------------------------------------------------------
C7_ShortLong ==
    [][(kpc = "match" /\ kpc' = "ret") =>
          LET centre == <<370, 735, 1320, 2462, 1863, 3135>>
              code(k) == IF runsecs - secs0 < 2 THEN k ELSE k + 6
          IN  /\ \A k \in 0 .. 5 :
                    (adcval0 > centre[k + 1] - 100 /\ adcval0 < centre[k + 1] + 100)
                        => key' = code(k)
              /\ adcval0 \in 320 .. 420 => key' = code(0)]_vars

\* A press of exactly two ticks whose samples 320 and 420 average 370.
C7_Witness ==
    /\ kpc = "ret" /\ adcval0 = 370 /\ adcval1 = 740 /\ adcvalcnt = 2
    /\ key = 6 /\ runsecs - secs0 = 2

\* ------------------------------------------------------------------------
\* Harness: eeprom_store_frequency(band, vfo, f) then
\* eeprom_load_frequency(band, vfo), for f an unsigned 32-bit value given by
\* its four bytes (most significant first)
\* ------------------------------------------------------------------------
ByteSamples == {0, 1, 127, 128, 255}
U32Samples == ByteSamples \X ByteSamples \X ByteSamples \X ByteSamples

\* The parameter "long f" that receives the unsigned value u: a value above
\* LONG_MAX converts modulo 2^32.
U32AsLong(u) ==
    IF u[1] >= 128
    THEN ((u[1] - 256) * 16777216) + u[2] * 65536 + u[3] * 256 + u[4]
    ELSE u[1] * 16777216 + u[2] * 65536 + u[3] * 256 + u[4]

\* The long r is the number whose big-endian unsigned 32-bit form is u.
EqualsU32(r, u) ==
    /\ r >= 0
    /\ r \div 16777216 = u[1]
    /\ (r \div 65536) % 256 = u[2]
    /\ (r \div 256) % 256 = u[3]
    /\ r % 256 = u[4]

EeStore ==
    /\ ee_pc = "arg"
    /\ eeprom' = eeprom_store_frequency(eeprom, ee_band, ee_vfo, U32AsLong(ee_arg))
    /\ ee_pc' = "stored"
    /\ UNCHANGED <<radioVars, irqVars, dds, pll, relay, mainVars, isrVars, cntVars,
                   keyVars, histVars, busVars, ee_band, ee_vfo, ee_arg, ee_ret>>

EeLoad ==
    /\ ee_pc = "stored"
    /\ ee_ret' = eeprom_load_frequency(eeprom, ee_band, ee_vfo)
    /\ ee_pc' = "loaded"
    /\ UNCHANGED <<radioVars, irqVars, devVars, mainVars, isrVars, cntVars,
                   keyVars, histVars, busVars, ee_band, ee_vfo, ee_arg>>

InitEE ==
    /\ InitRam
    /\ pc = "halt"
    /\ eeprom \in {BlankImage, ZeroImage}
    /\ ee_pc = "arg"
    /\ ee_band \in 0 .. LO_SLOT
    /\ ee_vfo \in Vfos
    /\ ee_arg \in U32Samples
    /\ ee_ret = 0

NextEE == EeStore \/ EeLoad

SpecEE == InitEE /\ [][NextEE]_vars

FieldBytes(mem, band, vfo) ==
    <<mem[start_adr(band, vfo)], mem[start_adr(band, vfo) + 1],
      mem[start_adr(band, vfo) + 2], mem[start_adr(band, vfo) + 3]>>

C21_SaveAll ==
    [][(pc = "keys" /\ pc' = "house" /\ key' = 4) =>
          /\ \A b \in Bands, v \in Vfos :
                eeprom_load_frequency(eeprom', b, v) = f_vfo'[b][v]
          /\ eeprom'[ADR_LAST_VFO] = cur_vfo'
          /\ eeprom'[ADR_LAST_BAND] = eeprom[ADR_LAST_BAND]
          /\ \A sb \in Vfos :
                FieldBytes(eeprom', LO_SLOT, sb) = FieldBytes(eeprom, LO_SLOT, sb)]_vars

\* Saved after a tuning step, booted from a used EEPROM: the tuned slot is
\* in the EEPROM, the LO fields still hold the calibration.
C21_Witness ==
    /\ pc = "house" /\ key = 4
    /\ f_vfo[0][1] = band_f0[0] + 1
    /\ eeprom_load_frequency(eeprom, 0, 1) = band_f0[0] + 1
    /\ eeprom_load_frequency(eeprom, LO_SLOT, 0) = INTERFREQUENCY - 1400
    /\ eeprom[ADR_LAST_VFO] = 1

\* ------------------------------------------------------------------------
\* C22: switch(key) of the control loop: 0 is band up, 1 toggles the
\* sideband flag, 2 swaps the VFO, 3 is band down, 4 runs save_all_vfos(),
\* 6 and 7 enter set_lo(0) (LSB) and set_lo(1) (USB); every other code that
\* get_keys() returns (-1, 5, 8, 9, 10, 11) changes no radio variable, no
\* synthesizer or relay setting and no EEPROM byte.
\* ------------------------------------------------------------------------
C22_Dispatch ==
    [][(pc = "keys" /\ pc' # "keys") =>
          /\ key' \in {-1, 5, 8, 9, 10, 11} =>
                pc' = "house" /\ UNCHANGED <<radioVars, devVars>>
          /\ key' = 0 =>
                cur_band' = BandUp(cur_band) /\ UNCHANGED <<cur_vfo, sideband, f_vfo>>
          /\ key' = 1 =>
                sideband' = 1 - sideband /\ UNCHANGED <<cur_vfo, cur_band, f_vfo, devVars>>
          /\ key' = 2 =>
                /\ cur_vfo' = 1 - cur_vfo
                /\ dds' = f_vfo[cur_band][cur_vfo']
                /\ UNCHANGED <<cur_band, sideband, f_vfo>>
          /\ key' = 3 =>
                cur_band' = BandDown(cur_band) /\ UNCHANGED <<cur_vfo, sideband, f_vfo>>
          /\ key' = 4 =>
                /\ eeprom' = save_all_vfos(eeprom, f_vfo, cur_vfo)
                /\ UNCHANGED <<radioVars, dds, pll, relay>>
          /\ key' \in {6, 7} =>
                /\ pc' = "lo_drain" /\ lo_sb' = key' - 6 /\ f_lo_tmp' = f_lo[key' - 6]
                /\ UNCHANGED <<radioVars, devVars>>
          /\ key' \notin {6, 7} => pc' = "house"]_vars

\* A long press of key 2 (code 8) was returned after a VFO swap: get_keys
\* stamped the message time, the radio is as the swap left it.
C22_Witness ==
    /\ pc = "house" /\ key = 8 /\ nkeys = 2
    /\ runsecs_msg = runsecs
    /\ cur_vfo = 0 /\ dds = f_vfo[cur_band][0]
    /\ eeprom[ADR_LAST_VFO] = 0 /\ eeprom[ADR_LAST_BAND] = 0

\* ------------------------------------------------------------------------
\* C23 (as stated): when the first sample is at or below 4000 and the while
\* loop ends with no sample summed (adcvalcnt = 0), get_keys goes on to
\* return -1 as a normal result: the mean is formed without a fault and
\* matches no key.
\* ------------------------------------------------------------------------
C23_ReleasedEarly ==
    [][(kpc = "mean" /\ adcvalcnt = 0) =>
          (kpc' = "match" /\ MatchKey(adcval0', 0) = -1)]_vars

\* ------------------------------------------------------------------------
\* The DDS link: set_frequency() called with frequencies of the band plan,
\* statement by statement
\* ------------------------------------------------------------------------
\* Band edges, start-up frequencies, neighbours of 7120000, and frequencies
\* whose exact tuning word is a whole number (f + 10000000 divisible by 5^8).
DdsFreqs == {1810000, 2000000, 3650000, 7120000, 7120001, 7120002, 7187500,
             14218750, 14280000, 18165000, 21290000, 24910000, 29700000}

\* After reset and the GPIO set-up of main(): the three lines are low, no
\* register of the Si5351 has been written.
InitBus ==
    /\ InitRam /\ EeIdle
    /\ pc = "halt"
    /\ eeprom = BlankImage

NextDds ==
    \/ \E f \in DdsFreqs : SfCall(f)
    \/ SfStrobeLow \/ SfInstr \/ SfByte \/ SfStrobeHigh
    \/ SpiClkLow \/ SpiData \/ SpiClkHigh \/ SpiReturn

SpecDds == InitBus /\ [][NextDds]_vars

\* <<floor(x * k / d), (x * k) mod d>>
MulDiv(x, k, d) ==
    LET qr == HexDivRem(HexMul(HexDigits(x), k, 0), d)
    IN  <<HexVal(qr[1]), qr[2]>>

\* x * k / d rounded to the nearest integer
MulDivRound(x, k, d) ==
    MulDiv(x, k, d)[1] + (IF 2 * MulDiv(x, k, d)[2] >= d THEN 1 ELSE 0)

\* The 32-bit word that the four bytes after the instruction byte make.
LinkWord ==
    ((link[3][2] * 256 + link[4][2]) * 256 + link[5][2]) * 256 + link[6][2]

\* set_frequency has returned
SfDone == sf_pc = "idle" /\ ncalls > 0

\* ------------------------------------------------------------------------
\* C24 (as stated): the tuning word transmitted by set_frequency(f) is
\* (f + 10000000) * 2^32 / 400000000 rounded to the nearest integer
\* (2^32 / 400000000 = 4194304 / 390625).
\* ------------------------------------------------------------------------
C24_WordRounded ==
    SfDone => LinkWord = MulDivRound(sf_f + INTERFREQUENCY, 4194304, 390625)

\* C24 (amended): the tuning word transmitted by set_frequency(f) is
\* (f + 10000000) * 2^32 / 400000000 with the fraction dropped, for the
\* frequencies of the band plan; it is the nearest integer only when the
\* fraction is below one half, as for f = 7120000 (183824600).
C24_WordTruncated ==
    SfDone =>
        /\ LinkWord = fword
        /\ LinkWord = MulDiv(sf_f + INTERFREQUENCY, 4194304, 390625)[1]
        /\ sf_f = 7120000 => LinkWord = 183824600
        /\ LinkWord # MulDivRound(sf_f + INTERFREQUENCY, 4194304, 390625) =>
               2 * MulDiv(sf_f + INTERFREQUENCY, 4194304, 390625)[2] >= 390625

\* 7120002: the exact word is 183824621.74..., 183824621 is sent.
C24_Witness ==
    /\ SfDone /\ sf_f = 7120002
    /\ LinkWord = 183824621
    /\ MulDivRound(sf_f + INTERFREQUENCY, 4194304, 390625) = 183824622

\* ------------------------------------------------------------------------
\* C25: every set_frequency call produces on the DDS link, in this order,
\* IO_UD driven low, the instruction byte 0x04, the four bytes of fword
\* from the most significant to the least significant, IO_UD driven high;
\* IO_UD is low for the whole transfer of the 5 bytes.
\* ------------------------------------------------------------------------
C25_LinkOrder ==
    LET e == <<<<"io_ud", 0>>, <<"byte", 4>>,
               <<"byte", (fword \div 16777216) % 256>>,
               <<"byte", (fword \div 65536) % 256>>,
               <<"byte", (fword \div 256) % 256>>,
               <<"byte", fword % 256>>,
               <<"io_ud", 1>>>>
    IN  /\ ncalls > 0 => (Len(link) <= 7 /\ link = SubSeq(e, 1, Len(link)))
        /\ SfDone => link = e
        /\ (sf_pc \in {"instr", "in_instr", "loop", "in_byte"} \/ spi_pc # "idle") =>
               io_ud = 0

\* The second call of a behaviour, made with IO_UD and SCLK high from the
\* first: 7120000 is sent as 04 0A F4 F0 D8.
C25_Witness ==
    /\ SfDone /\ ncalls = 2 /\ sf_f = 7120000
    /\ link = <<<<"io_ud", 0>>, <<"byte", 4>>, <<"byte", 10>>, <<"byte", 244>>,
                <<"byte", 240>>, <<"byte", 216>>, <<"io_ud", 1>>>>
    /\ io_ud = 1

\* ------------------------------------------------------------------------
\* C26: spi_send_byte(value) produces exactly 8 rising edges of SCLK, the
\* SDIO level at the i-th rising edge (i = 0..7) is bit 7 - i of value, and
\* SDIO changes only while SCLK is low.
\* ------------------------------------------------------------------------
C26_ShiftOut ==
    [][/\ (spi_pc = "ret" /\ spi_pc' = "idle") =>
              /\ Len(bits) = 8
              /\ \A i \in 0 .. 7 : bits[i + 1] = (sbyte \div 2 ^ (7 - i)) % 2
       /\ (spi_pc # "idle" /\ spi_pc' # "idle" /\ Len(bits') > Len(bits)) =>
              (sclk = 0 /\ sclk' = 1 /\ Len(bits') = Len(bits) + 1)
       /\ (spi_pc # "idle" /\ sclk = 0 /\ sclk' = 1) => Len(bits') = Len(bits) + 1
       /\ sdio' # sdio => (sclk = 0 /\ sclk' = 0)]_vars

\* The byte 0xF4 of the word for 7120000 has been shifted out; SCLK was high
\* when the call began.
C26_Witness ==
    /\ spi_pc = "ret" /\ sbyte = 244
    /\ bits = <<1, 1, 1, 1, 0, 1, 0, 0>>
    /\ sclk = 1 /\ sdio = 0 /\ io_ud = 0

\* ------------------------------------------------------------------------
\* The Si5351: si5351_start(), then si5351_set_freq(SYNTH_MS_0, freq) for
\* every freq of the LO tolerance window
\* ------------------------------------------------------------------------
LoWindowFreqs == (INTERFREQUENCY - LO_WINDOW) .. (INTERFREQUENCY + LO_WINDOW)

NextSynth ==
    \/ si5351_start
    \/ \E freq \in LoWindowFreqs : si5351_set_freq(freq)

SpecSynth == InitBus /\ [][NextSynth]_vars

\* AN619: the 8 registers of a PLL or multisynth hold P3[15:8], P3[7:0],
\* P1[17:16] (upper bits 0: no divider), P1[15:8], P1[7:0],
\* P3[19:16] : P2[19:16], P2[15:8], P2[7:0].
An619Bytes(p1, p2, p3) ==
    <<(p3 \div 256) % 256, p3 % 256, (p1 \div 65536) % 4, (p1 \div 256) % 256, p1 % 256,
      16 * ((p3 \div 65536) % 16) + ((p2 \div 65536) % 16), (p2 \div 256) % 256, p2 % 256>>

\* ------------------------------------------------------------------------
\* C27: si5351_start() with a = 32, b = 0, c = 0xFFFFF computes p1 = 3584
\* and p2 = 0, and registers SYNTH_PLL_A .. SYNTH_PLL_A + 7 hold the AN619
\* encoding of p1 = 3584, p2 = 0, p3 = 0xFFFFF.
\* ------------------------------------------------------------------------
C27_BringUp ==
    si_pc # "reset" =>
        /\ SiP1(PLLRATIO, 0, PLL_C) = 3584
        /\ SiP2(PLLRATIO, 0, PLL_C) = 0
        /\ [i \in 1 .. 8 |-> si_regs[SYNTH_PLL_A + i - 1]] = An619Bytes(3584, 0, 1048575)

\* After the bring-up: FF FF 00 0E 00 F0 00 00 in registers 26..33, the
\* multisynth registers not written yet.
C27_Witness ==
    /\ si_pc = "started"
    /\ [i \in 1 .. 8 |-> si_regs[SYNTH_PLL_A + i - 1]] = <<255, 255, 0, 14, 0, 240, 0, 0>>
    /\ si_regs[SYNTH_MS_0] = -1 /\ si_regs[177] = 32

\* ------------------------------------------------------------------------
\* C28 (as stated): for every freq of the tolerance window
\* si5351_set_freq computes a = floor(800000000 / freq),
\* b = round(frac(800000000 / freq) * 0xFFFFF), p1 = 128 a + floor(128 b / c)
\* - 512, p2 = 128 b - c floor(128 b / c), p3 = c, and the 8 bytes written
\* encode these p1, p2, p3.
\* ------------------------------------------------------------------------
C28_FieldsRounded ==
    si_pc = "set" =>
        LET n == FXTAL * PLLRATIO
            a == n \div si_freq
            b == MulDivRound(n % si_freq, PLL_C, si_freq)
        IN  [i \in 1 .. 8 |-> si_regs[SYNTH_MS_0 + i - 1]]
                = An619Bytes(SiP1(a, b, PLL_C), SiP2(a, b, PLL_C), PLL_C)

\* C28 (amended): as stated, except that b is frac(800000000 / freq) *
\* 0xFFFFF with the fraction dropped: b = floor((800000000 mod freq) *
\* 0xFFFFF / freq).
C28_FieldsTruncated ==
    si_pc = "set" =>
        LET n == FXTAL * PLLRATIO
            a == n \div si_freq
            b == MulDiv(n % si_freq, PLL_C, si_freq)[1]
        IN  /\ SiA(si_freq) = a /\ SiB(si_freq) = b
            /\ [i \in 1 .. 8 |-> si_regs[SYNTH_MS_0 + i - 1]]
                   = An619Bytes(SiP1(a, b, PLL_C), SiP2(a, b, PLL_C), PLL_C)
            /\ pll = si_freq

\* 9998500: 800000000 / 9998500 = 80.0120018..., the fraction times 0xFFFFF
\* is 12584.98...; a = 80, b = 12584, p1 = 9729, p2 = 562177.
C28_Witness ==
    /\ si_pc = "set" /\ si_freq = 9998500
    /\ MulDivRound(800000000 % si_freq, PLL_C, si_freq) = 12585
    /\ [i \in 1 .. 8 |-> si_regs[SYNTH_MS_0 + i - 1]] = An619Bytes(9729, 562177, 1048575)

\* ------------------------------------------------------------------------
\* C29: at the end of the loop body the voltage/temperature readouts are
\* refreshed when the ticks since the previous refresh have elapsed, and a
\* transient message on the message line is cleared once it is old enough,
\* whatever the value of runsecs was when the message was written.  ("3
\* ticks have elapsed" is taken as the test of the code, runsecs > t + 3.)
\* ------------------------------------------------------------------------
C29_Housekeeping ==
    [][(pc = "house" /\ pc' = "loop") =>
          /\ runsecs > runsecs_meas + 3 => runsecs_meas' = runsecs
          /\ (msg_at >= 0 /\ runsecs > msg_at + 3) => msg_at' = -1]_vars

\* ------------------------------------------------------------------------
\* C30: a single encoder click (the only encoder interrupt of the run, so
\* no other click shares its timer tick) changes the active VFO frequency
\* by exactly +1 or -1 when the control loop applies it, under every
\* interleaving of the timer interrupt with the loop; it is never applied
\* as a delta of 0.
\* ------------------------------------------------------------------------
C30_SingleClick ==
    [][(pc = "apply" /\ pc' = "clear" /\ nedges = 1) =>
          f_vfo'[cur_band][cur_vfo] - f_vfo[cur_band][cur_vfo] \in {-1, 1}]_vars

\* ------------------------------------------------------------------------
\* C31: on an encoder interrupt with PB0 read high the handler sets tuning
\* to +1 if PB1 is high and to -1 if it is low, and adds exactly 1 to
\* pulses (nothing else runs between its entry and its return); with PB0
\* read low it changes neither tuning nor pulses.
\* ------------------------------------------------------------------------
C31_EncoderEdge ==
    [][/\ \A state \in PinStates :
             ExtiEnter(state) =>
                 /\ UNCHANGED <<tuning, pulses>>
                 /\ IF state \in {1, 3}
                    THEN exti_pc' = "tuning" /\ exti_dir' = (IF state = 3 THEN 1 ELSE -1)
                    ELSE exti_pc' = "idle"
       /\ (exti_pc = "tuning" /\ exti_pc' # "tuning") =>
             (exti_pc' = "load" /\ tuning' = exti_dir /\ pulses' = pulses)
       /\ (exti_pc = "load" /\ exti_pc' # "load") =>
             (exti_pc' = "store" /\ UNCHANGED <<tuning, pulses>>)
       /\ (exti_pc = "store" /\ exti_pc' # "store") =>
             (exti_pc' = "idle" /\ tuning' = tuning /\ pulses' = pulses + 1)
       /\ exti_pc # "idle" => (pc' = pc /\ tim_pc' = tim_pc)]_vars

\* Three interrupts in one tick: two with PB0 high, the last of them with
\* PB1 low, and one with PB0 low.
C31_Witness ==
    /\ exti_pc = "idle" /\ nedges = 3 /\ nticks = 0
    /\ pulses = 2 /\ tuning = -1

\* ------------------------------------------------------------------------
\* C32: the timer handler sets pulses to 0 and then adds exactly 1 to
\* runsecs; pulses is never negative, it changes only by the handler's
\* reset to 0 and by +1 for an encoder interrupt (so it is at most the
\* number of encoder interrupts since the last reset), and runsecs changes
\* only by the timer handler's increment, so it never decreases.
\* ------------------------------------------------------------------------
C32_TickCounters ==
    /\ [](pulses >= 0 /\ (nticks = 0 => pulses <= nedges))
    /\ [][/\ (tim_pc = "clear" /\ tim_pc' # "clear") =>
                (tim_pc' = "inc" /\ pulses' = 0 /\ runsecs' = runsecs)
          /\ (tim_pc = "inc" /\ tim_pc' # "inc") =>
                (tim_pc' = "idle" /\ runsecs' = runsecs + 1 /\ pulses' = pulses)
          /\ pulses' # pulses =>
                \/ tim_pc = "clear" /\ tim_pc' = "inc" /\ pulses' = 0
                \/ exti_pc = "store" /\ exti_pc' = "idle" /\ pulses' = pulses + 1
          /\ runsecs' # runsecs =>
                (tim_pc = "inc" /\ tim_pc' = "idle" /\ runsecs' = runsecs + 1)]_vars

\* Two ticks taken, two encoder interrupts before the second reset and one
\* after it.
C32_Witness ==
    /\ tim_pc = "idle" /\ exti_pc = "idle"
    /\ nticks = 2 /\ runsecs = 2 /\ nedges = 3 /\ pulses = 1

\* ------------------------------------------------------------------------
\* C33: the loop of set_lo is left only with key 6 or 7 and only to the
\* switch that follows it; while set_lo waits for the release and while the
\* loop runs, no key code and no tuning event changes cur_band, cur_vfo,
\* f_vfo or the EEPROM, and every tuning event taken by the loop programs
\* the PLL with the updated working LO value.
\* ------------------------------------------------------------------------
C33_LoLoop ==
    [][/\ (InSetLo /\ pc # "lo_end") =>
             /\ UNCHANGED <<cur_band, cur_vfo, f_vfo, eeprom>>
             /\ pc' \in {"lo_drain", "lo_key0", "lo_key", "lo_test", "lo_clear", "lo_end"}
             /\ pc' = "lo_end" => (pc = "lo_test" /\ key \in {6, 7})
       /\ (pc = "lo_test" /\ pc' # pc /\ key \notin {6, 7}) =>
             IF tuning # 0
             THEN pc' = "lo_clear" /\ pll' = f_lo_tmp'
             ELSE pc' = "lo_key" /\ UNCHANGED <<f_lo_tmp, pll>>]_vars

\* A tuning event has been taken inside the loop while a key other than 6
\* and 7 was read: the PLL runs on the working value, not on f_lo.
C33_Witness ==
    /\ pc = "lo_clear" /\ key \in 0 .. 5
    /\ pll = f_lo_tmp /\ pll # f_lo[lo_sb]

C35_IndexRanges ==
    pc # "boot" =>
        /\ cur_band \in 0 .. (MAXBANDS - 1)
        /\ cur_vfo \in {0, 1}
        /\ sideband \in {0, 1}
        /\ pref_sideband[cur_band] \in {0, 1}
        /\ relay \in 0 .. (MAXBANDS - 1)
        /\ InSetLo => lo_sb \in {0, 1}

\* Booted from an EEPROM whose VFO byte was never written, with band 7
\* current, and the band-up key has been pressed: the band stays 7.
C35_Witness ==
    /\ pc = "house" /\ key = 0
    /\ cur_band = 7 /\ cur_vfo = 0
    /\ eeprom_read(eeprom, ADR_LAST_VFO) = 255

\* ------------------------------------------------------------------------
\* C36: at the top of every iteration of for(;;), the first one after boot
\* included, the frequency last programmed into the DDS is
\* f_vfo[cur_band][cur_vfo].
\* ------------------------------------------------------------------------
C36_DdsAtLoopTop ==
    pc = "loop" => dds = f_vfo[cur_band][cur_vfo]

\* ------------------------------------------------------------------------
\* C37: at the top of every iteration of for(;;), after any band changes,
\* sideband toggles and LO calibrations (stored or aborted, for either
\* sideband), PA10..PA12 carry the binary encoding of cur_band and the
\* frequency last programmed into the PLL is f_lo[pref_sideband[cur_band]].
\* ------------------------------------------------------------------------
C37_RelayAndLoAtLoopTop ==
    pc = "loop" =>
        /\ \A t1 \in 0 .. 2 : (relay \div (2 ^ t1)) % 2 = (cur_band \div (2 ^ t1)) % 2
        /\ pll = f_lo[pref_sideband[cur_band]]

\* ------------------------------------------------------------------------
\* C38: at the top of every iteration of for(;;) the boot sequence applied
\* to the EEPROM as it stands yields the current band and VFO: a power
\* cycle restores cur_band and cur_vfo, whatever keys were pressed since
\* the previous boot.
\* ------------------------------------------------------------------------
C38_PowerCycle ==
    pc = "loop" =>
        /\ BootBand(eeprom) = cur_band
        /\ BootVfo(eeprom) = cur_vfo

\* Booted from a fresh EEPROM (band 7, VFO byte unwritten), then band down
\* and VFO swap: the EEPROM holds band 6 and VFO 1.
C38_Witness ==
    /\ pc = "loop" /\ nkeys = 2
    /\ cur_band = 6 /\ cur_vfo = 1
    /\ eeprom_read(eeprom, ADR_LAST_BAND) = 6
    /\ eeprom_read(eeprom, ADR_LAST_VFO) = 1

\* ------------------------------------------------------------------------
\* The control program started from an EEPROM whose fields lie on the edges
\* of their windows: VFO A of band 0 on the upper band edge, the two LO
\* values on the edges of the LO window.  One encoder step in either
\* direction takes the value out of its window or keeps it inside.
\* ------------------------------------------------------------------------
EdgeImage ==
    LET m0 == eeprom_store_frequency(FactoryImage, 0, 0, band_f1[0])
        m1 == eeprom_store_frequency(m0, LO_SLOT, 0, INTERFREQUENCY - LO_WINDOW)
        m2 == eeprom_store_frequency(m1, LO_SLOT, 1, INTERFREQUENCY + LO_WINDOW)
    IN  eeprom_write(eeprom_write(m2, ADR_LAST_BAND, 0), ADR_LAST_VFO, 0)

InitCal ==
    /\ InitRam
    /\ EeIdle
    /\ pc = "boot"
    /\ eeprom = EdgeImage

SpecCal == InitCal /\ [][Next]_vars

\* ------------------------------------------------------------------------
\* C39: the boot sequence applied to the EEPROM that save_all_vfos() has
\* just written yields, for every band and VFO, the saved frequency when it
\* was inside the band and the factory default f_vfo0 when it was not; the
\* boot sequence applied to the EEPROM that the store case of set_lo has
\* just written yields the stored LO value exactly when that value is
\* within 3000 Hz of INTERFREQUENCY.
\* ------------------------------------------------------------------------
C39_SaveThenBoot ==
    [][/\ (pc = "keys" /\ pc' = "house" /\ key' = 4) =>
             \A b \in Bands, v \in Vfos :
                 load_all_vfos(eeprom')[b][v] =
                     IF band_f0[b] <= f_vfo[b][v] /\ f_vfo[b][v] <= band_f1[b]
                     THEN f_vfo[b][v]
                     ELSE f_vfo0[b][v]
       /\ (pc = "lo_end" /\ pc' = "house" /\ key = 7) =>
             /\ f_lo'[lo_sb] = f_lo_tmp
             /\ (BootLo(eeprom')[lo_sb] = f_lo_tmp)
                    <=> (/\ f_lo_tmp >= INTERFREQUENCY - 3000
                         /\ f_lo_tmp <= INTERFREQUENCY + 3000)]_vars

\* VFO A of band 0 was tuned one step above the band edge and saved: the
\* field holds the out-of-band value and the boot sequence would replace
\* it by the factory default.
C39_Witness ==
    /\ pc = "house" /\ key = 4
    /\ f_vfo[0][0] = band_f1[0] + 1
    /\ eeprom_load_frequency(eeprom, 0, 0) = band_f1[0] + 1
    /\ load_all_vfos(eeprom)[0][0] = f_vfo0[0][0]
    /\ load_all_vfos(eeprom)[0][1] = f_vfo[0][1]

\* ------------------------------------------------------------------------
\* C40: the six windows (key_value[t1] - 100, key_value[t1] + 100) are
\* pairwise disjoint, so the mean formed by get_keys lies in at most one of
\* them, and the value get_keys returns is -1 or a code in 0..11.
\* ------------------------------------------------------------------------
C40_WindowsDisjoint ==
    /\ \A i \in 0 .. (NUM_KEYS - 1), j \in 0 .. (NUM_KEYS - 1) :
          i # j => \/ key_value[i] + 100 <= key_value[j] - 100
                   \/ key_value[j] + 100 <= key_value[i] - 100
    /\ kpc \in {"match", "ret"} =>
          Cardinality({t1 \in 0 .. (NUM_KEYS - 1) :
                          adcval0 > key_value[t1] - 100 /\ adcval0 < key_value[t1] + 100}) <= 1
    /\ kpc = "ret" => key \in -1 .. 11

\* Two samples, 1000 and 4000, average 2500, which lies in the window of
\* key 3 only; the key was held for two ticks and code 9 is returned.
C40_Witness ==
    /\ kpc = "ret" /\ key = 9
    /\ adcval0 = 2500 /\ adcval1 = 5000 /\ adcvalcnt = 2
    /\ runsecs - secs0 >= 2

====
